---------------------------- MODULE Spec2Model ----------------------------
(***************************************************************************)
(* A model of models/deformable_detr.py: the loss criterion                *)
(* (SetCriterion), and the two post-processors (PostProcess,               *)
(* NMSPostProcess).                                                        *)
(*                                                                         *)
(* Lists and tensors are sequences; an index VALUE is 0-based as in the     *)
(* source, and At(s, i) reads position i.  Real numbers are exact          *)
(* rationals <<numerator, denominator>>.                                   *)
(* Calls into libraries whose value the model does not need                *)
(* (sigmoid_focal_loss, accuracy, dice_loss) are kept as terms: a record   *)
(* naming the function and holding its arguments.                          *)
(***************************************************************************)
EXTENDS Integers, Sequences, FiniteSets, TLC

(***************************************************************************)
(* Exact rational arithmetic.                                              *)
(***************************************************************************)
Abs(x) == IF x < 0 THEN -x ELSE x

\* Op(v), v being evaluated once
Once(Op(_), v) == CHOOSE r \in {Op(x) : x \in {v}} : TRUE

RECURSIVE Gcd(_, _)
Gcd(a, b) == IF b = 0 THEN a ELSE Gcd(b, a % b)

\* n/d for d > 0 and n # 0, both divided by g
Reduced(n, d, g) == <<n \div g, d \div g>>
RatOf(p) ==
    IF p[1] = 0 THEN <<0, 1>>
    ELSE IF p[2] < 0 THEN Once(LAMBDA g : Reduced(-p[1], -p[2], g), Gcd(Abs(p[1]), -p[2]))
    ELSE Once(LAMBDA g : Reduced(p[1], p[2], g), Gcd(Abs(p[1]), p[2]))

\* the rational n/d in lowest terms, d > 0
Rat(n, d) == Once(RatOf, <<n, d>>)

RInt(n) == <<n, 1>>
Lcm(a, b) == Once(LAMBDA p : (p[1] \div Gcd(p[1], p[2])) * p[2], <<a, b>>)
\* sums and comparisons go through the least common denominator, products
\* cancel crosswise first: the integers stay small
RAddOver(a, b, l) == Rat(a[1] * (l \div a[2]) + b[1] * (l \div b[2]), l)
RAddOf(p) ==
    IF p[1][2] = p[2][2] THEN Rat(p[1][1] + p[2][1], p[1][2])
    ELSE Once(LAMBDA l : RAddOver(p[1], p[2], l), Lcm(p[1][2], p[2][2]))
RAdd(a, b) == Once(RAddOf, <<a, b>>)
RNeg(a) == Once(LAMBDA x : <<-x[1], x[2]>>, a)
RSub(a, b) == RAdd(a, RNeg(b))
RMulOf(p) ==
    IF p[1][1] = 0 \/ p[2][1] = 0 THEN <<0, 1>>
    ELSE Once(LAMBDA c : Rat(c[1][1] * c[2][1], c[1][2] * c[2][2]),
              <<Rat(p[1][1], p[2][2]), Rat(p[2][1], p[1][2])>>)
RMul(a, b) == Once(RMulOf, <<a, b>>)
RDiv(a, b) == Once(LAMBDA x : RMul(a, Rat(x[2], x[1])), b)
RLessOver(a, b, l) == a[1] * (l \div a[2]) < b[1] * (l \div b[2])
RLess(a, b) ==
    \E x \in {a} : \E y \in {b} : \E l \in {Lcm(x[2], y[2])} : RLessOver(x, y, l)
RLeq(a, b) == ~RLess(b, a)
RAbs(a) == <<Abs(a[1]), a[2]>>

\* sums, least common multiples and concatenations of the elements lo..hi
\* of a sequence, by halves
RECURSIVE ISumOf(_, _, _)
ISumOf(s, lo, hi) ==
    IF hi < lo THEN 0
    ELSE IF lo = hi THEN s[lo]
    ELSE ISumOf(s, lo, (lo + hi) \div 2) + ISumOf(s, ((lo + hi) \div 2) + 1, hi)
ISum(s) == ISumOf(s, 1, Len(s))

RECURSIVE LcmOf(_, _, _)
LcmOf(s, lo, hi) ==
    IF hi < lo THEN 1
    ELSE IF lo = hi THEN s[lo]
    ELSE Lcm(LcmOf(s, lo, (lo + hi) \div 2), LcmOf(s, ((lo + hi) \div 2) + 1, hi))
LcmAll(s) == LcmOf(s, 1, Len(s))

\* the sum of a sequence of rationals, over their least common denominator
RSumOver(s, l) == Rat(ISum([k \in 1..Len(s) |-> s[k][1] * (l \div s[k][2])]), l)
RSumOf(s) == Once(LAMBDA l : RSumOver(s, l), LcmAll([k \in 1..Len(s) |-> s[k][2]]))
RSum(s) == Once(RSumOf, [k \in 1..Len(s) |-> s[k]] @@ <<>>)

Min2(a, b) == IF a < b THEN a ELSE b
Max2(a, b) == IF a < b THEN b ELSE a

\* s[i] of the source: the element at 0-based position i
At(s, i) == s[i + 1]

RECURSIVE CatOf(_, _, _)
CatOf(ss, lo, hi) ==
    IF hi < lo THEN <<>>
    ELSE IF lo = hi THEN ss[lo]
    ELSE CatOf(ss, lo, (lo + hi) \div 2) \o CatOf(ss, ((lo + hi) \div 2) + 1, hi)
\* torch.cat of a list of sequences
Cat(ss) == CatOf(ss, 1, Len(ss))

(***************************************************************************)
(* Boxes.  util/box_ops.py is not among the sources; the two functions the *)
(* criterion and the post-processors call are modelled by their standard   *)
(* definitions.                                                            *)
(***************************************************************************)
RHalf(a) == Rat(a[1], 2 * a[2])

\* box_cxcywh_to_xyxy: (cx - w/2, cy - h/2, cx + w/2, cy + h/2)
box_cxcywh_to_xyxy(b) ==
    <<RSub(b[1], RHalf(b[3])), RSub(b[2], RHalf(b[4])),
      RAdd(b[1], RHalf(b[3])), RAdd(b[2], RHalf(b[4]))>>


\* the corners of two xyxy boxes as integers over their common denominator
OnGrid(x, y) ==
    LET l == LcmAll([k \in 1..8 |-> IF k <= 4 THEN x[k][2] ELSE y[k - 4][2]])
    IN  [l |-> l,
         x |-> [k \in 1..4 |-> x[k][1] * (l \div x[k][2])],
         y |-> [k \in 1..4 |-> y[k][1] * (l \div y[k][2])]]

\* intersection, union and enclosing-box areas of two boxes on a grid
GridAreas(g) ==
    LET iw == Max2(0, Min2(g.x[3], g.y[3]) - Max2(g.x[1], g.y[1]))
        ih == Max2(0, Min2(g.x[4], g.y[4]) - Max2(g.x[2], g.y[2]))
        inter == iw * ih
    IN  [inter |-> inter,
         union |-> (g.x[3] - g.x[1]) * (g.x[4] - g.x[2])
                   + (g.y[3] - g.y[1]) * (g.y[4] - g.y[2]) - inter,
         hull |-> (Max2(g.x[3], g.y[3]) - Min2(g.x[1], g.y[1]))
                  * (Max2(g.x[4], g.y[4]) - Min2(g.x[2], g.y[2]))]

\* generalized_box_iou of one pair of xyxy boxes: iou - (hull - union) / hull
generalized_box_iou(x, y) ==
    LET a == GridAreas(OnGrid(x, y))
    IN  RSub(Rat(a.inter, a.union), Rat(a.hull - a.union, a.hull))

\* box_iou of one pair of xyxy boxes (torchvision, used by batched_nms)
box_iou(x, y) ==
    LET a == GridAreas(OnGrid(x, y))
    IN  IF a.union = 0 THEN RInt(0) ELSE Rat(a.inter, a.union)

\* torch.sigmoid on the logits the model uses, rounded to hundredths
SigmoidPercent(l) ==
    CASE l = -3 -> 5 [] l = -2 -> 12 [] l = -1 -> 27 [] l = 0 -> 50
      [] l = 1 -> 73 [] l = 2 -> 88 [] l = 3 -> 95

sigmoid(l) == Rat(SigmoidPercent(l), 100)

(***************************************************************************)
(* SetCriterion: the loss handlers.                                        *)
(*                                                                         *)
(* outputs is a record of pred_logits[b][q][c] (integer logits),           *)
(* pred_boxes[b][q] (a cxcywh box of rationals) and obj[b][q] (a           *)
(* rational); targets is a list of records of labels and boxes; indices    *)
(* is a list, per image, of <<query indices, target indices>>.  self is    *)
(* the criterion: num_classes, losses, focal_alpha.                        *)
(***************************************************************************)
\* a library call kept as a term
Term(f, a) == [fn |-> f, args |-> a]

\* tensor[idx] for idx = (batch_idx, src_idx): the rows at those positions
Gather(tensor, idx) ==
    [k \in 1..Len(idx[1]) |-> At(At(tensor, idx[1][k]), idx[2][k])]

\* torch.cat([t[key][J] for t, (_, J) in zip(targets, indices)])
CatTargets(targets, indices, key) ==
    Cat([i \in 1..Min2(Len(targets), Len(indices)) |->
            [k \in 1..Len(indices[i][2]) |-> At(targets[i][key], indices[i][2][k])]])

\* a permutation index whose image numbers start at 1
_get_src_permutation_idx_FromOne(indices) ==
    <<Cat([i \in 1..Len(indices) |-> [k \in 1..Len(indices[i][1]) |-> i]]),
      Cat([i \in 1..Len(indices) |-> indices[i][1]])>>

\* batch_idx = cat of full_like(src, i), src_idx = cat of src
_get_src_permutation_idx(indices) ==
    <<Cat([i \in 1..Len(indices) |-> [k \in 1..Len(indices[i][1]) |-> i - 1]]),
      Cat([i \in 1..Len(indices) |-> indices[i][1]])>>

_get_tgt_permutation_idx(indices) ==
    <<Cat([i \in 1..Len(indices) |-> [k \in 1..Len(indices[i][2]) |-> i - 1]]),
      Cat([i \in 1..Len(indices) |-> indices[i][2]])>>

\* the positions k of idx that write (b, q); the last write wins
Writers(idx, b, q) == {k \in 1..Len(idx[1]) : idx[1][k] = b /\ idx[2][k] = q}
SetMax(S) == CHOOSE x \in S : \A y \in S : y <= x

\* target_classes: num_classes everywhere, then target_classes[idx] = target_classes_o
TargetClasses(self, src_logits, idx, target_classes_o) ==
    [b1 \in 1..Len(src_logits) |->
        [q1 \in 1..Len(src_logits[b1]) |->
            IF Writers(idx, b1 - 1, q1 - 1) = {} THEN self.num_classes
            ELSE target_classes_o[SetMax(Writers(idx, b1 - 1, q1 - 1))]]]

\* a one-hot matrix that keeps the last column
TargetClassesOnehot_WithBackground(src_logits, target_classes) ==
    [b1 \in 1..Len(src_logits) |->
        [q1 \in 1..Len(src_logits[b1]) |->
            [c1 \in 1..(Len(src_logits[b1][q1]) + 1) |->
                IF target_classes[b1][q1] = c1 - 1 THEN 1 ELSE 0]]]

\* zeros of [B, Q, C + 1], scatter_ of 1 at the target class, last column dropped
TargetClassesOnehot(src_logits, target_classes) ==
    [b1 \in 1..Len(src_logits) |->
        [q1 \in 1..Len(src_logits[b1]) |->
            [c1 \in 1..Len(src_logits[b1][q1]) |->
                IF target_classes[b1][q1] = c1 - 1 THEN 1 ELSE 0]]]

loss_labels(self, outputs, targets, indices, second_indices, num_boxes, log) ==
    LET src_logits == outputs.pred_logits
        idx == _get_src_permutation_idx(indices)
        target_classes_o == CatTargets(targets, indices, "labels")
        target_classes == TargetClasses(self, src_logits, idx, target_classes_o)
        target_classes_onehot == TargetClassesOnehot(src_logits, target_classes)
        loss_ce == Term("sigmoid_focal_loss_times_queries",
                        <<src_logits, target_classes_onehot, num_boxes,
                          self.focal_alpha, 2, Len(src_logits[1])>>)
        class_error == Term("100_minus_accuracy",
                            <<Gather(src_logits, idx), target_classes_o>>)
    IN  IF log THEN ("loss_ce" :> loss_ce) @@ ("class_error" :> class_error)
        ELSE ("loss_ce" :> loss_ce)

\* argmax over the last dimension: the first position of the largest logit
ArgMax(row) ==
    (CHOOSE c1 \in 1..Len(row) :
        /\ \A d \in 1..Len(row) : row[d] <= row[c1]
        /\ \A d \in 1..(c1 - 1) : row[d] < row[c1]) - 1

loss_cardinality(self, outputs, targets, indices, second_indices, num_boxes) ==
    LET pred_logits == outputs.pred_logits
        tgt_lengths == [i \in 1..Len(targets) |-> Len(targets[i].labels)]
        card_pred == [b1 \in 1..Len(pred_logits) |->
                        Cardinality({q1 \in 1..Len(pred_logits[b1]) :
                            ArgMax(pred_logits[b1][q1]) # Len(pred_logits[b1][q1]) - 1})]
        card_err == RDiv(RSum([b1 \in 1..Len(pred_logits) |->
                                RInt(Abs(card_pred[b1] - tgt_lengths[b1]))]),
                         RInt(Len(pred_logits)))
    IN  ("cardinality_error" :> card_err)

\* sum over the four coordinates of |a - b|
BoxL1(a, b) == RSum([k \in 1..4 |-> RAbs(RSub(a[k], b[k]))])

\* torch.diag(generalized_box_iou(xyxy(src), xyxy(tgt))): pair k with pair k
DiagGIoU(src_boxes, target_boxes) ==
    [k \in 1..Len(src_boxes) |->
        generalized_box_iou(box_cxcywh_to_xyxy(src_boxes[k]),
                            box_cxcywh_to_xyxy(target_boxes[k]))]

\* loss_boxes reading the secondary assignment
loss_boxes_FromSecondary(self, outputs, targets, indices, second_indices, num_boxes) ==
    LET idx == _get_src_permutation_idx(second_indices)
        src_boxes == Gather(outputs.pred_boxes, idx)
        target_boxes == CatTargets(targets, second_indices, "boxes")
        loss_bbox == [k \in 1..Len(src_boxes) |-> BoxL1(src_boxes[k], target_boxes[k])]
        giou == DiagGIoU(src_boxes, target_boxes)
        loss_giou == [k \in 1..Len(src_boxes) |-> RSub(RInt(1), giou[k])]
    IN  ("loss_bbox" :> RDiv(RSum(loss_bbox), num_boxes))
        @@ ("loss_giou" :> RDiv(RSum(loss_giou), num_boxes))

loss_boxes(self, outputs, targets, indices, second_indices, num_boxes) ==
    LET idx == _get_src_permutation_idx(indices)
        src_boxes == Gather(outputs.pred_boxes, idx)
        target_boxes == CatTargets(targets, indices, "boxes")
        loss_bbox == [k \in 1..Len(src_boxes) |-> BoxL1(src_boxes[k], target_boxes[k])]
        giou == DiagGIoU(src_boxes, target_boxes)
        loss_giou == [k \in 1..Len(src_boxes) |-> RSub(RInt(1), giou[k])]
    IN  ("loss_bbox" :> RDiv(RSum(loss_bbox), num_boxes))
        @@ ("loss_giou" :> RDiv(RSum(loss_giou), num_boxes))

\* src_logits[:, :20] summed over dim 1: the first ObjClassSlice columns
ObjClassSlice == 20

SliceSum(row) ==
    RSum([c1 \in 1..Min2(ObjClassSlice, Len(row)) |-> sigmoid(row[c1])])

\* the comparison 'iou > 0.6' of both loops
GIoUThreshold == Rat(6, 10)
\* a comparison that takes the threshold itself for positive
IsPositive_AtLeast(iou) == RLeq(GIoUThreshold, iou)

\* iou > 0.6
IsPositive(iou) == RLess(GIoUThreshold, iou)

Indices1(n) == [k \in 1..n |-> k]

\* what the lines before the two loops compute, for one assignment
PairData(outputs, targets, indices) ==
    LET idx == _get_src_permutation_idx(indices)
        src_boxes == Gather(outputs.pred_boxes, idx)
        target_boxes == CatTargets(targets, indices, "boxes")
        logits == Gather(outputs.pred_logits, idx)
    IN  [idx |-> idx,
         logits_sum |-> [k \in 1..Len(logits) |-> SliceSum(logits[k])],
         P_G_GIOU |-> DiagGIoU(src_boxes, target_boxes)]

\* outputs['obj'][idx[0][count]][idx[1][count]]
ObjAt(outputs, idx, count) ==
    At(At(outputs.obj, At(idx[1], count)), At(idx[2], count))

\* the positive target appended to iou_list: blended in loss_obj, the class
\* mass alone in loss_eobj
PositiveTarget(blend, iou, logits_sum) ==
    IF blend THEN RAdd(RMul(iou, Rat(6, 10)), RMul(Rat(4, 10), logits_sum))
    ELSE logits_sum

\* the two loops (lines 368-384 and 435-451) over what PairData computed
\* for the primary (first) and the secondary (second) assignment; the
\* negatives of the second loop are read at the primary positions
ObjLoops(blend, outputs, first, second) ==
    LET n1 == Len(first.P_G_GIOU)
        n2 == Len(second.P_G_GIOU)
        pos1 == SelectSeq(Indices1(n1), LAMBDA k : IsPositive(first.P_G_GIOU[k]))
        neg1 == SelectSeq(Indices1(n1), LAMBDA k : ~IsPositive(first.P_G_GIOU[k]))
        pos2 == SelectSeq(Indices1(n2), LAMBDA k : IsPositive(second.P_G_GIOU[k]))
        neg2 == SelectSeq(Indices1(n2), LAMBDA k : ~IsPositive(second.P_G_GIOU[k]))
    IN  [iou_list |->
            [j \in 1..Len(pos1) |->
                PositiveTarget(blend, first.P_G_GIOU[pos1[j]], first.logits_sum[pos1[j]])]
            \o [j \in 1..Len(pos2) |->
                PositiveTarget(blend, second.P_G_GIOU[pos2[j]], second.logits_sum[pos2[j]])],
         obj_list |->
            [j \in 1..Len(pos1) |-> ObjAt(outputs, first.idx, pos1[j] - 1)]
            \o [j \in 1..Len(pos2) |-> ObjAt(outputs, second.idx, pos2[j] - 1)],
         negative_list |->
            [j \in 1..Len(neg1) |-> ObjAt(outputs, first.idx, neg1[j] - 1)]
            \o [j \in 1..Len(neg2) |-> ObjAt(outputs, first.idx, neg2[j] - 1)]]

\* the three lists after the two loops
ObjLists(blend, outputs, targets, indices, second_indices) ==
    ObjLoops(blend, outputs, PairData(outputs, targets, indices),
             PairData(outputs, targets, second_indices))

\* a placeholder that is outputs['obj'][0][0] itself
Placeholder_FirstObj(outputs) == At(At(outputs.obj, 0), 0)

\* outputs['obj'][0][0] - outputs['obj'][0][0]
Placeholder(outputs) == RSub(At(At(outputs.obj, 0), 0), At(At(outputs.obj, 0), 0))

\* F.l1_loss(a, b, reduction='none').sum(); a one-element a against an empty b
\* broadcasts to the empty tensor
L1Sum(a, b) ==
    IF Len(b) = 0 THEN RInt(0)
    ELSE RSum([k \in 1..Len(a) |-> RAbs(RSub(a[k], b[k]))])

\* a list left as the loops made it
WithPlaceholder_Never(list, outputs) == list

\* lines 386-389: an empty list gets the placeholder as its one element
WithPlaceholder(list, outputs) ==
    IF Len(list) = 0 THEN <<Placeholder(outputs)>> ELSE list

\* torch.ones(negative_tensor.shape) * 0.5
NegativeGt(negative_list) == [k \in 1..Len(negative_list) |-> Rat(5, 10)]

\* lines 391-404 and 458-471 on the lists after lines 386-389
ObjLossOf(obj_list, iou_list, negative_list, num_boxes) ==
    IF Len(obj_list) = 0 THEN obj_list
    ELSE RAdd(RDiv(L1Sum(obj_list, iou_list), num_boxes),
              RDiv(L1Sum(negative_list, NegativeGt(negative_list)), num_boxes))

\* lines 386-404 and 453-471
ObjLossValue(lists, outputs, num_boxes) ==
    ObjLossOf(WithPlaceholder(lists.obj_list, outputs), lists.iou_list,
              WithPlaceholder(lists.negative_list, outputs), num_boxes)

loss_obj(self, outputs, targets, indices, second_indices, num_boxes) ==
    ("loss_object" :>
        ObjLossValue(ObjLists(TRUE, outputs, targets, indices, second_indices),
                     outputs, num_boxes))

loss_eobj(self, outputs, targets, indices, second_indices, num_boxes) ==
    ("loss_eobject" :>
        ObjLossValue(ObjLists(FALSE, outputs, targets, indices, second_indices),
                     outputs, num_boxes))

\* loss_masks takes (outputs, targets, indices, num_boxes): no second_indices
loss_masks(self, outputs, targets, indices, num_boxes) ==
    LET src_idx == _get_src_permutation_idx(indices)
        tgt_idx == _get_tgt_permutation_idx(indices)
    IN  ("loss_mask" :> Term("sigmoid_focal_loss", <<src_idx, tgt_idx, num_boxes>>))
        @@ ("loss_dice" :> Term("dice_loss", <<src_idx, tgt_idx, num_boxes>>))

\* the positional parameters each handler of loss_map declares after self
HandlerParams(loss) ==
    CASE loss = "labels" ->
            <<"outputs", "targets", "indices", "second_indices", "num_boxes">>
      [] loss = "cardinality" ->
            <<"outputs", "targets", "indices", "second_indices", "num_boxes">>
      [] loss = "boxes" ->
            <<"outputs", "targets", "indices", "second_indices", "num_boxes">>
      [] loss = "objs" ->
            <<"outputs", "targets", "indices", "second_indices", "num_boxes">>
      [] loss = "eobjs" ->
            <<"outputs", "targets", "indices", "second_indices", "num_boxes">>
      [] loss = "masks" ->
            <<"outputs", "targets", "indices", "num_boxes">>

loss_map == {"labels", "cardinality", "boxes", "objs", "eobjs", "masks"}

Returned(d) == [raised |-> FALSE, error |-> "", dict |-> d]
Raised(e) == [raised |-> TRUE, error |-> e, dict |-> <<>>]

\* get_loss: loss_map[loss](outputs, targets, pos_indices, neg_indices, num_boxes, **kwargs)
\* passes five positional arguments to whatever handler the name maps to
get_loss(self, loss, outputs, targets, pos_indices, neg_indices, num_boxes, kwargs) ==
    IF loss \notin loss_map THEN Raised("AssertionError")
    ELSE IF Len(HandlerParams(loss)) # 5 THEN Raised("TypeError")
    ELSE IF loss = "labels" THEN
        Returned(loss_labels(self, outputs, targets, pos_indices, neg_indices, num_boxes,
                             IF "log" \in DOMAIN kwargs THEN kwargs["log"] ELSE TRUE))
    ELSE IF loss = "cardinality" THEN
        Returned(loss_cardinality(self, outputs, targets, pos_indices, neg_indices, num_boxes))
    ELSE IF loss = "boxes" THEN
        Returned(loss_boxes(self, outputs, targets, pos_indices, neg_indices, num_boxes))
    ELSE IF loss = "objs" THEN
        Returned(loss_obj(self, outputs, targets, pos_indices, neg_indices, num_boxes))
    ELSE IF loss = "eobjs" THEN
        Returned(loss_eobj(self, outputs, targets, pos_indices, neg_indices, num_boxes))
    ELSE Returned(loss_masks(self, outputs, targets, pos_indices, num_boxes))

\* a comprehension that forgets the suffix
Suffixed_Dropped(l_dict, suffix) == l_dict

\* {k + suffix: v for k, v in l_dict.items()}
Suffixed(l_dict, suffix) ==
    [k2 \in {k \o suffix : k \in DOMAIN l_dict} |->
        l_dict[CHOOSE k \in DOMAIN l_dict : k \o suffix = k2]]

\* losses.update(l_dict)
Update(losses, l_dict) == l_dict @@ losses

(***************************************************************************)
(* The matcher (models/matcher.py) is not among the sources.  It is        *)
(* modelled from the specification: per image an exact minimum-cost        *)
(* one-to-one assignment of the targets to queries on the cost             *)
(* w_cls * (1 - p) + w_bbox * L1 + w_giou * (1 - GIoU); the secondary      *)
(* assignment solves the same matrix again after excluding the queries the *)
(* primary assignment chose.                                               *)
(***************************************************************************)
MatcherWeights == [class |-> 2, bbox |-> 5, giou |-> 2]

\* the solver works on costs in hundredths: a rational rounded down
Hundredths(r) == (100 * r[1]) \div r[2]

\* a cxcywh box as corners in hundredths
CornersOf(box) ==
    LET cx == Hundredths(box[1])
        cy == Hundredths(box[2])
        w == Hundredths(box[3])
        h == Hundredths(box[4])
    IN  <<cx - (w \div 2), cy - (h \div 2), cx + (w \div 2), cy + (h \div 2)>>

\* the generalised IoU of two corner boxes, in hundredths
GIoUOfCorners(x, y) ==
    LET iw == Max2(0, Min2(x[3], y[3]) - Max2(x[1], y[1]))
        ih == Max2(0, Min2(x[4], y[4]) - Max2(x[2], y[2]))
        inter == iw * ih
        union == (x[3] - x[1]) * (x[4] - x[2]) + (y[3] - y[1]) * (y[4] - y[2]) - inter
        hull == (Max2(x[3], y[3]) - Min2(x[1], y[1])) * (Max2(x[4], y[4]) - Min2(x[2], y[2]))
    IN  ((100 * inter) \div union) - ((100 * (hull - union)) \div hull)
CornersGIoU(x, y) == Once(LAMBDA c : GIoUOfCorners(c[1], c[2]), <<x, y>>)

\* the cost of a pair: p the probability in hundredths of the target's
\* class, box and tbox the predicted and the target box
CostOf(v) ==
    MatcherWeights.class * (100 - v.p)
    + MatcherWeights.bbox
        * ISum([k \in 1..4 |-> Abs(Hundredths(v.box[k]) - Hundredths(v.tbox[k]))])
    + MatcherWeights.giou * (100 - CornersGIoU(CornersOf(v.box), CornersOf(v.tbox)))

\* the cost of giving target t of image b to query q (all 0-based)
MatchCost(outputs, targets, b, q, t) ==
    Once(CostOf,
         [box |-> At(At(outputs.pred_boxes, b), q),
          tbox |-> At(At(targets, b).boxes, t),
          p |-> SigmoidPercent(At(At(At(outputs.pred_logits, b), q),
                                  At(At(targets, b).labels, t)))])

\* a function held as its table of values, each computed once
Table(f) == f @@ <<>>

\* a set of (query, target) pairs in the order the solver returns them:
\* queries ascending
Before(r, p) == r[1] < p[1] \/ (r[1] = p[1] /\ r[2] < p[2])
SortedPairs(pairs) ==
    Table([k \in 1..Cardinality(pairs) |->
              CHOOSE p \in pairs : Cardinality({r \in pairs : Before(r, p)}) = k - 1])
Unzipped(sorted) ==
    <<Table([k \in 1..Len(sorted) |-> sorted[k][1]]),
      Table([k \in 1..Len(sorted) |-> sorted[k][2]])>>
AsIndexPair(pairs) == Once(Unzipped, Once(SortedPairs, pairs))

\* the first of the cheapest choices for an item, with what follows it
PickFirst(free, cost, sub) ==
    Once(LAMBDA x0 : <<cost[x0], <<x0>> \o sub[x0][2]>>,
         CHOOSE x \in free :
             /\ \A y \in free : cost[x] <= cost[y]
             /\ \A y \in free : y < x => cost[x] < cost[y])

\* the cheapest way to give the items i .. n-1 distinct members of free, as
\* <<cost, choices>>, where c[i, x] is the cost of giving item i the choice
\* x; the solver is deterministic, and of several optimal assignments the
\* model takes the first in lexicographic order
RECURSIVE Cheapest(_, _, _, _)
WithCosts(i, free, c, sub) ==
    Once(LAMBDA cost : PickFirst(free, cost, sub),
         Table([x \in free |-> c[i, x] + sub[x][1]]))
Cheapest(i, n, free, c) ==
    IF i = n THEN <<0, <<>>>>
    ELSE Once(LAMBDA sub : WithCosts(i, free, c, sub),
              Table([x \in free |-> Cheapest(i + 1, n, free \ {x}, c)]))

\* a solver that gives every item its own cheapest choice
Optimal_PerItem(n, free, c) ==
    [i \in 1..n |-> CHOOSE x \in free : \A y \in free :
                        c[i - 1, x] < c[i - 1, y] \/ (c[i - 1, x] = c[i - 1, y] /\ x <= y)]

\* the exact minimum-cost assignment of n items to distinct members of free
Optimal(n, free, c) == Once(LAMBDA costs : Cheapest(0, n, free, costs)[2], c)

\* the k-th smallest member of a set of numbers, k from 1
Nth(S, k) == CHOOSE x \in S : Cardinality({y \in S : y < x}) = k - 1

\* the primary assignment of an image of n targets and nq queries under the
\* cost matrix cm[q, t]: every target gets a query
Primary(n, nq, cm) ==
    Once(LAMBDA m : {<<m[t], t - 1>> : t \in 1..n},
         Optimal(n, 0..(nq - 1), Table([e \in (0..(n - 1)) \X (0..(nq - 1)) |->
                                           cm[e[2], e[1]]])))

\* the secondary assignment: the same cost matrix without the rows of the
\* queries the primary assignment chose.  With at least n queries left every
\* target gets one of them; with fewer, every query left gets a target.
SecondaryOn(n, cm, left) ==
    IF Cardinality(left) >= n
    THEN Once(LAMBDA byTarget : {<<byTarget[t], t - 1>> : t \in 1..n},
              Optimal(n, left, Table([e \in (0..(n - 1)) \X left |-> cm[e[2], e[1]]])))
    ELSE Once(LAMBDA byQuery : {<<Nth(left, j), byQuery[j]>> : j \in 1..Cardinality(left)},
              Optimal(Cardinality(left), 0..(n - 1),
                      Table([e \in (0..(Cardinality(left) - 1)) \X (0..(n - 1)) |->
                                cm[Nth(left, e[1] + 1), e[2]]])))
Secondary(n, nq, cm, taken) ==
    Once(LAMBDA left : SecondaryOn(n, cm, left), (0..(nq - 1)) \ taken)

\* <<primary, secondary>> for an image of n targets and nq queries under
\* the cost matrix cm
MatchUnder(n, nq, cm) ==
    Once(LAMBDA first : <<AsIndexPair(first),
                          AsIndexPair(Secondary(n, nq, cm, {p[1] : p \in first}))>>,
         Primary(n, nq, cm))

\* <<primary, secondary>> for image b
MatchImage(outputs, targets, b) ==
    Once(LAMBDA cm : MatchUnder(Len(At(targets, b).labels),
                                Len(At(outputs.pred_boxes, b)), cm),
         Table([e \in (0..(Len(At(outputs.pred_boxes, b)) - 1))
                        \X (0..(Len(At(targets, b).labels) - 1)) |->
                   MatchCost(outputs, targets, b, e[1], e[2])]))

\* the assignments of every image of a batch
MatchAll(outputs, targets) ==
    Once(LAMBDA per : <<Table([i \in 1..Len(per) |-> per[i][1]]),
                        Table([i \in 1..Len(per) |-> per[i][2]])>>,
         Table([i \in 1..Len(targets) |-> MatchImage(outputs, targets, i - 1)]))

\* matcher(outputs, targets): <<indices, second_indices>>
matcher(outputs, targets) == Once(LAMBDA a : MatchAll(a[1], a[2]), <<outputs, targets>>)

(***************************************************************************)
(* The inputs of one training step.                                        *)
(***************************************************************************)
MaxTargets == 2
MaxAux == 2

MkBox(cx, cy, w, h) == <<Rat(cx, 10), Rat(cy, 10), Rat(w, 10), Rat(h, 10)>>

\* ground-truth boxes, and predicted boxes whose GIoU with the first of them
\* is 1, exactly 6/10 and 8/10, one equal to the second, one far from all
TargetBoxes == <<MkBox(5, 5, 5, 2), MkBox(3, 7, 2, 2), MkBox(7, 3, 2, 4)>>
PredBoxes == <<MkBox(5, 5, 5, 2), MkBox(5, 5, 3, 2), MkBox(5, 5, 4, 2),
               MkBox(3, 7, 2, 2), MkBox(8, 2, 2, 2)>>

\* one layer's predictions for nb images of nq queries and nc classes
MkLayer(nb, nq, nc, seed) ==
    [pred_logits |-> [b1 \in 1..nb |-> [q1 \in 1..nq |-> [c1 \in 1..nc |->
                        ((q1 + 2 * c1 + b1 + seed) % 5) - 2]]],
     pred_boxes |-> [b1 \in 1..nb |-> [q1 \in 1..nq |->
                        PredBoxes[((q1 + b1 + seed) % Len(PredBoxes)) + 1]]],
     obj |-> [b1 \in 1..nb |-> [q1 \in 1..nq |->
                        Rat((3 * q1 + b1 + 2 * seed) % 11, 10)]]]

\* the targets of a batch whose images hold counts[i] objects
MkTargets(counts, nc, seed) ==
    [i \in 1..Len(counts) |->
        [labels |-> [j \in 1..counts[i] |-> (j + i + seed) % nc],
         boxes |-> [j \in 1..counts[i] |->
                        TargetBoxes[((j + i + seed) % Len(TargetBoxes)) + 1]]]]

\* the numbers of objects in the images of a batch: every pair of counts up
\* to MaxTargets, and a batch of three images, one of them without objects
CountVectors == [1..2 -> 0..MaxTargets] \cup {<<3, 0, 5>>}

SeqMax(v) == CHOOSE x \in {v[i] : i \in 1..Len(v)} : \A i \in 1..Len(v) : v[i] <= x

\* the number of queries of a batch: one more than its largest image has
\* targets, and no more than there are predicted boxes to tell apart
NumQueries(counts) == Min2(SeqMax(counts) + 1, Len(PredBoxes))

\* self.losses: what build() passes, with and without masks, and shorter lists
LossLists ==
    {<<"labels", "boxes", "cardinality", "objs", "eobjs">>,
     <<"labels", "boxes", "cardinality", "objs", "eobjs", "masks">>,
     <<"masks", "labels">>, <<"eobjs", "objs", "boxes">>, <<>>}

\* the distributed run: whether torch.distributed is initialised, the world
\* size, and the number of boxes the other workers add to the sum
Worlds ==
    {[dist |-> FALSE, world_size |-> 1, remote |-> 0],
     [dist |-> TRUE, world_size |-> 2, remote |-> 1]}

\* the model's output dict: the final layer's tensors, 'aux_outputs' when
\* aux_loss is set and 'enc_outputs' when two_stage is set
MkOutputs(nb, nq, nc, aux, enc) ==
    LET final == MkLayer(nb, nq, nc, 0)
        a == IF aux < 0 THEN <<>>
             ELSE ("aux_outputs" :> [i \in 1..aux |-> MkLayer(nb, nq, nc, i)])
        e == IF enc THEN ("enc_outputs" :> MkLayer(nb, nq, nc, 4)) ELSE <<>>
    IN  ("pred_logits" :> final.pred_logits) @@ ("pred_boxes" :> final.pred_boxes)
        @@ ("obj" :> final.obj) @@ a @@ e

(***************************************************************************)
(* SetCriterion.forward, one step per matcher call, per num_boxes          *)
(* computation and per iteration of a loss loop.                           *)
(***************************************************************************)
VARIABLES
    heap,            \* the module instances alive, by identity
    target_sizes,    \* the argument target_sizes of a post-processor
    results,         \* what a post-processor returns
    self,            \* the criterion: num_classes, losses, focal_alpha
    outputs,         \* the argument outputs
    targets,         \* the argument targets (the caller's list)
    world,           \* the distributed run
    pc,              \* the position in forward
    indices,         \* the local indices
    second_indices,  \* the local second_indices
    num_boxes,       \* the local num_boxes
    losses,          \* the local losses, returned at the end
    li,              \* the position in self.losses of the running loop
    ai,              \* the index i of the auxiliary layer
    bin_targets,     \* the local bin_targets
    error,           \* the exception that ended the step, if any
    calls,           \* every get_loss call made so far, with what it was given
    matches,         \* every matcher call made so far, with what it returned
    reduces          \* the number of all_reduce calls made so far

vars == <<self, outputs, targets, world, pc, indices, second_indices, num_boxes,
          losses, li, ai, bin_targets, error, calls, matches, reduces, heap,
          target_sizes, results>>

None == "None"

Init ==
    /\ \E ls \in LossLists :
          self = [num_classes |-> 3, losses |-> ls, focal_alpha |-> Rat(1, 4)]
    /\ \E counts \in CountVectors : \E aux \in -1..MaxAux : \E enc \in BOOLEAN :
          /\ outputs = MkOutputs(Len(counts), NumQueries(counts), 3, aux, enc)
          /\ targets = MkTargets(counts, 3, 0)
    /\ world \in Worlds
    /\ pc = "match"
    /\ indices = None /\ second_indices = None /\ num_boxes = None
    /\ losses = None /\ li = 0 /\ ai = 0 /\ bin_targets = None /\ error = None
    /\ calls = <<>> /\ matches = <<>> /\ reduces = 0
    /\ heap = <<>> /\ target_sizes = <<>> /\ results = <<>>

\* {k: v for k, v in outputs.items() if k != 'aux_outputs' and k != 'enc_outputs'}
outputs_without_aux(o) ==
    [k \in DOMAIN o \ {"aux_outputs", "enc_outputs"} |-> o[k]]

LayerName(i) == "aux" \o ToString(i)

\* where forward goes on outputs o once the loop over the final layer, or
\* over auxiliary layer i - 1, has ended
AfterLayerOf(o, i) ==
    IF "aux_outputs" \in DOMAIN o /\ i < Len(o["aux_outputs"])
    THEN "aux_match"
    ELSE IF "enc_outputs" \in DOMAIN o THEN "enc_match" ELSE "done"

AfterLayer(i) == AfterLayerOf(outputs, i)

\* a matcher call whose assignments are kept only when it is the first of
\* the step
Matched_OnlyFirst(layer, tg, r) ==
    /\ indices' = IF pc = "match" THEN r[1] ELSE indices
    /\ second_indices' = IF pc = "match" THEN r[2] ELSE second_indices
    /\ matches' = Append(matches, [layer |-> layer, targets |-> tg,
                                   indices |-> r[1], second_indices |-> r[2]])

\* what a matcher call leaves behind: the two assignments, and its record
Matched(layer, tg, r) ==
    /\ indices' = r[1]
    /\ second_indices' = r[2]
    /\ matches' = Append(matches, [layer |-> layer, targets |-> tg,
                                   indices |-> r[1], second_indices |-> r[2]])

\* lines 537-540
Match ==
    /\ pc = "match"
    /\ Matched("final", "targets", matcher(outputs_without_aux(outputs), targets))
    /\ pc' = "num_boxes"
    /\ UNCHANGED <<self, outputs, targets, world, num_boxes, losses, li, ai,
                   bin_targets, error, calls, reduces>>
    /\ UNCHANGED <<heap, target_sizes, results>>

\* sum(len(t["labels"]) for t in targets)
LocalBoxes(tg) == RSum([i \in 1..Len(tg) |-> RInt(Len(tg[i].labels))])

\* util.misc.get_world_size(): 1 unless torch.distributed is initialised
get_world_size(w) == IF w.dist THEN w.world_size ELSE 1

\* a clamp that lets values below 1 through
ClampMin1_Identity(x) == x

\* torch.clamp(x, min=1)
ClampMin1(x) == IF RLess(x, RInt(1)) THEN RInt(1) ELSE x

\* lines 544-548: the local sum, the all_reduce when distributed, the division
\* by the world size and the clamp
NumBoxesOf(tg, w) ==
    LET local == LocalBoxes(tg)
        summed == IF w.dist THEN RAdd(local, RInt(w.remote)) ELSE local
    IN  ClampMin1(RDiv(summed, RInt(get_world_size(w))))

\* lines 543-551
NumBoxes ==
    /\ pc = "num_boxes"
    /\ num_boxes' = NumBoxesOf(targets, world)
    /\ reduces' = IF world.dist THEN reduces + 1 ELSE reduces
    /\ losses' = <<>>
    /\ li' = 1
    /\ ai' = 0
    /\ pc' = IF Len(self.losses) = 0 THEN AfterLayer(0) ELSE "final"
    /\ UNCHANGED <<self, outputs, targets, world, indices, second_indices,
                   bin_targets, error, calls, matches>>
    /\ UNCHANGED <<heap, target_sizes, results>>

\* the record of one get_loss call: what it was given, how many matcher
\* calls had been made before it, and how it ended
Call(loss, layer, tg, r) ==
    [loss |-> loss, layer |-> layer, targets |-> tg, indices |-> indices,
     second_indices |-> second_indices, num_boxes |-> num_boxes,
     after |-> Len(matches), raised |-> r.raised, keys |-> DOMAIN r.dict]

\* what a get_loss call that returned or raised r leaves behind: its record,
\* and either the exception or losses.update of the suffixed dict
Called(loss, layer, tg, r, suffix) ==
    /\ calls' = Append(calls, Call(loss, layer, tg, r))
    /\ error' = IF r.raised THEN r.error ELSE error
    /\ losses' = IF r.raised THEN losses ELSE Update(losses, Suffixed(r.dict, suffix))

\* whether the call get_loss makes for this loss raises
Raises(loss) == loss \notin loss_map \/ Len(HandlerParams(loss)) # 5

\* lines 552-554: one iteration of the loop over the final layer
FinalLoss ==
    /\ pc = "final"
    /\ Called(self.losses[li], "final", "targets",
              get_loss(self, self.losses[li], outputs, targets, indices,
                       second_indices, num_boxes, <<>>), "")
    /\ IF Raises(self.losses[li])
       THEN pc' = "raised" /\ li' = li
       ELSE /\ li' = li + 1
            /\ pc' = IF li = Len(self.losses) THEN AfterLayer(0) ELSE "final"
    /\ UNCHANGED <<self, outputs, targets, world, indices, second_indices, num_boxes,
                   ai, bin_targets, matches, reduces>>
    /\ UNCHANGED <<heap, target_sizes, results>>

\* lines 559-560: a matcher call on auxiliary layer ai
AuxMatch ==
    /\ pc = "aux_match"
    /\ Matched(LayerName(ai), "targets", matcher(At(outputs["aux_outputs"], ai), targets))
    /\ li' = 1
    /\ pc' = IF Len(self.losses) = 0 THEN AfterLayer(ai + 1) ELSE "aux"
    /\ ai' = IF Len(self.losses) = 0 THEN ai + 1 ELSE ai
    /\ UNCHANGED <<self, outputs, targets, world, num_boxes, losses, bin_targets,
                   error, calls, reduces>>
    /\ UNCHANGED <<heap, target_sizes, results>>

\* kwargs of the auxiliary and encoder loops: {'log': False} for 'labels'
NoLog(loss) == IF loss = "labels" THEN ("log" :> FALSE) ELSE <<>>

\* lines 561-572: one iteration of the loop over auxiliary layer ai
AuxLoss ==
    /\ pc = "aux"
    /\ IF self.losses[li] = "masks"
       THEN UNCHANGED <<losses, error, calls>>
       ELSE Called(self.losses[li], LayerName(ai), "targets",
                   get_loss(self, self.losses[li], At(outputs["aux_outputs"], ai),
                            targets, indices, second_indices, num_boxes,
                            NoLog(self.losses[li])),
                   "_" \o ToString(ai))
    /\ IF self.losses[li] # "masks" /\ Raises(self.losses[li])
       THEN pc' = "raised" /\ li' = li /\ ai' = ai
       ELSE /\ li' = li + 1
            /\ pc' = IF li = Len(self.losses) THEN AfterLayer(ai + 1) ELSE "aux"
            /\ ai' = IF li = Len(self.losses) THEN ai + 1 ELSE ai
    /\ UNCHANGED <<self, outputs, targets, world, indices, second_indices, num_boxes,
                   bin_targets, matches, reduces>>
    /\ UNCHANGED <<heap, target_sizes, results>>

\* a copy that is the object itself
deepcopy_SameObject(x) == [value |-> x, same_object |-> TRUE]

\* copy.deepcopy(x): a new object equal to x that shares nothing with it
deepcopy(x) == [value |-> x, same_object |-> FALSE]

\* for bt in bin_targets: bt['labels'] = torch.zeros_like(bt['labels'])
BinTargets(tg) ==
    [i \in 1..Len(tg) |->
        [tg[i] EXCEPT !.labels = [j \in 1..Len(tg[i].labels) |-> 0]]]

\* what the caller's list holds once the labels have been rewritten through
\* the copy c of it
AfterRewrite(tg, c) == IF c.same_object THEN BinTargets(tg) ELSE tg

\* lines 574-579
EncMatch ==
    /\ pc = "enc_match"
    /\ bin_targets' = BinTargets(deepcopy(targets).value)
    /\ targets' = AfterRewrite(targets, deepcopy(targets))
    /\ Matched("enc", "bin_targets",
               matcher(outputs["enc_outputs"], BinTargets(deepcopy(targets).value)))
    /\ li' = 1
    /\ pc' = IF Len(self.losses) = 0 THEN "done" ELSE "enc"
    /\ UNCHANGED <<self, outputs, world, num_boxes, losses, ai, error,
                   calls, reduces>>
    /\ UNCHANGED <<heap, target_sizes, results>>

\* the losses the loop over the encoder layer skips (line 581)
EncSkipped(loss) == loss = "masks" \/ loss = "objs"

\* lines 580-591: one iteration of the loop over the encoder layer
EncLoss ==
    /\ pc = "enc"
    /\ IF EncSkipped(self.losses[li])
       THEN UNCHANGED <<losses, error, calls>>
       ELSE Called(self.losses[li], "enc", "bin_targets",
                   get_loss(self, self.losses[li], outputs["enc_outputs"], bin_targets,
                            indices, second_indices, num_boxes, NoLog(self.losses[li])),
                   "_enc")
    /\ IF ~EncSkipped(self.losses[li]) /\ Raises(self.losses[li])
       THEN pc' = "raised" /\ li' = li
       ELSE /\ li' = li + 1
            /\ pc' = IF li = Len(self.losses) THEN "done" ELSE "enc"
    /\ UNCHANGED <<self, outputs, targets, world, indices, second_indices, num_boxes,
                   ai, bin_targets, matches, reduces>>
    /\ UNCHANGED <<heap, target_sizes, results>>

Next == Match \/ NumBoxes \/ FinalLoss \/ AuxMatch \/ AuxLoss \/ EncMatch \/ EncLoss

Spec == Init /\ [][Next]_vars

(***************************************************************************)
(* The loss handlers on their own: each is called once, in the order of    *)
(* loss_map, on outputs, targets and a pair of assignments that need not   *)
(* come from the matcher.  losses maps the loss name to what its handler   *)
(* returned.                                                               *)
(***************************************************************************)
\* the assignment giving target t of every image the query (t + k) mod nq
Shifted(counts, nq, k) ==
    [i \in 1..Len(counts) |-> AsIndexPair({<<(t + k) % nq, t>> : t \in 0..(counts[i] - 1)})]

\* the assignments tried for a batch
Assignments(counts, nq) == {Shifted(counts, nq, k) : k \in 0..(nq - 1)}

HandlerInit ==
    /\ self = [num_classes |-> 3, losses |-> <<>>, focal_alpha |-> Rat(1, 4)]
    /\ \E counts \in CountVectors :
          /\ outputs = MkLayer(Len(counts), NumQueries(counts), 3, 0)
          /\ targets = MkTargets(counts, 3, 0)
          /\ indices \in Assignments(counts, NumQueries(counts))
          /\ second_indices \in Assignments(counts, NumQueries(counts))
    /\ world \in Worlds
    /\ num_boxes = NumBoxesOf(targets, world)
    /\ pc = "labels"
    /\ losses = <<>> /\ li = 0 /\ ai = 0 /\ bin_targets = None /\ error = None
    /\ calls = <<>> /\ matches = <<>> /\ reduces = 0
    /\ heap = <<>> /\ target_sizes = <<>> /\ results = <<>>

\* a handler has returned d: on to the next one
HandlerReturned(loss, d, next) ==
    /\ pc = loss
    /\ losses' = (loss :> d) @@ losses
    /\ pc' = next
    /\ UNCHANGED <<self, outputs, targets, world, indices, second_indices, num_boxes,
                   li, ai, bin_targets, error, calls, matches, reduces>>
    /\ UNCHANGED <<heap, target_sizes, results>>

LossLabels ==
    HandlerReturned("labels",
        loss_labels(self, outputs, targets, indices, second_indices, num_boxes, TRUE),
        "cardinality")

LossCardinality ==
    HandlerReturned("cardinality",
        loss_cardinality(self, outputs, targets, indices, second_indices, num_boxes),
        "boxes")

LossBoxes ==
    HandlerReturned("boxes",
        loss_boxes(self, outputs, targets, indices, second_indices, num_boxes), "objs")

LossObj ==
    HandlerReturned("objs",
        loss_obj(self, outputs, targets, indices, second_indices, num_boxes), "eobjs")

LossEobj ==
    HandlerReturned("eobjs",
        loss_eobj(self, outputs, targets, indices, second_indices, num_boxes), "masks")

LossMasks ==
    HandlerReturned("masks", loss_masks(self, outputs, targets, indices, num_boxes),
                    "returned")

HandlerNext == LossLabels \/ LossCardinality \/ LossBoxes \/ LossObj \/ LossEobj \/ LossMasks

HandlerSpec == HandlerInit /\ [][HandlerNext]_vars

(***************************************************************************)
(* Properties of SetCriterion.forward, checked under Spec.                 *)
(***************************************************************************)
\* the calls made so far for one layer, in order
CallsOf(layer) == SelectSeq(calls, LAMBDA c : c.layer = layer)

\* the matcher calls made so far for one layer
MatchesOf(layer) == SelectSeq(matches, LAMBDA m : m.layer = layer)

\* every key a handler of loss_map can return
HandlerKeys ==
    {"loss_ce", "class_error", "cardinality_error", "loss_bbox", "loss_giou",
     "loss_object", "loss_eobject", "loss_mask", "loss_dice"}

\* the keys of the returned dictionary that end in '_enc'
EncKeys ==
    IF pc \in {"match", "num_boxes"} THEN {}
    ELSE DOMAIN losses \cap {k \o "_enc" : k \in HandlerKeys}

\* C1: with an encoder-proposal entry the labels of bin_targets are all 0,
\* the encoder layer has its own assignment, and only the labels, boxes and
\* cardinality handlers are called for it, so that the only keys ending in
\* '_enc' are theirs.  The loop skips 'masks' and 'objs' but not 'eobjs':
\* the property fails.
C1_EncoderLossesOnly ==
    /\ Len(MatchesOf("enc")) > 0 =>
          /\ MatchesOf("enc")[1].targets = "bin_targets"
          /\ \A i \in 1..Len(bin_targets) : \A j \in 1..Len(bin_targets[i].labels) :
                bin_targets[i].labels[j] = 0
    /\ \A k \in 1..Len(calls) :
          calls[k].layer = "enc" =>
             /\ calls[k].loss \in {"labels", "boxes", "cardinality"}
             /\ calls[k].targets = "bin_targets"
    /\ EncKeys \subseteq {"loss_ce_enc", "loss_bbox_enc", "loss_giou_enc",
                          "cardinality_error_enc"}

\* C2: every call of the final-layer loop for a recognised loss name returns
\* the handler's entries without raising, and a 'masks' call returns
\* 'loss_mask' and 'loss_dice'.  get_loss hands loss_masks five positional
\* arguments and it takes four: the property fails.
C2_FinalDispatchReturns ==
    \A k \in 1..Len(calls) :
       (calls[k].layer = "final" /\ calls[k].loss \in loss_map) =>
          /\ ~calls[k].raised
          /\ calls[k].loss = "masks" => calls[k].keys = {"loss_mask", "loss_dice"}

\* S: the ground-truth objects of the batch and of the other workers
TotalBoxes ==
    ISum([i \in 1..Len(targets) |-> Len(targets[i].labels)])
    + (IF world.dist THEN world.remote ELSE 0)

\* max(1, S / W)
ExpectedNumBoxes ==
    IF TotalBoxes >= get_world_size(world)
    THEN Rat(TotalBoxes, get_world_size(world)) ELSE RInt(1)

Counts == [i \in 1..Len(targets) |-> Len(targets[i].labels)]

\* C3: once computed, num_boxes is max(1, S / W), at least 1, and it is the
\* num_boxes every get_loss call of the step was given, whatever its layer;
\* with the counts [3, 0, 5] and one worker it is 8.
C3_NumBoxes ==
    /\ pc \notin {"match", "num_boxes"} =>
          /\ num_boxes = ExpectedNumBoxes
          /\ RLeq(RInt(1), num_boxes)
          /\ (Counts = <<3, 0, 5>> /\ ~world.dist) => num_boxes = RInt(8)
    /\ \A k \in 1..Len(calls) : calls[k].num_boxes = ExpectedNumBoxes

\* a step over the counts [3, 0, 5] with one worker that has returned after
\* calls for the final layer, an auxiliary layer and the encoder layer
C3_Witness ==
    /\ pc = "done" /\ Counts = <<3, 0, 5>> /\ ~world.dist /\ num_boxes = RInt(8)
    /\ Len(CallsOf("final")) > 0 /\ Len(CallsOf("aux1")) > 0 /\ Len(CallsOf("enc")) > 0

\* the auxiliary layers of the step
AuxLayers ==
    IF "aux_outputs" \in DOMAIN outputs THEN 0..(Len(outputs["aux_outputs"]) - 1) ELSE {}

\* the requested losses without 'masks'
WithoutMasks == SelectSeq(self.losses, LAMBDA l : l # "masks")

\* the number of entries the calls made so far returned
RECURSIVE EntriesOf(_, _)
EntriesOf(cs, k) == IF k = 0 THEN 0 ELSE Cardinality(cs[k].keys) + EntriesOf(cs, k - 1)

C16_IndicesOfLastMatch ==
    \A k \in 1..Len(calls) :
       /\ calls[k].after \in 1..Len(matches)
       /\ calls[k].indices = matches[calls[k].after].indices
       /\ calls[k].second_indices = matches[calls[k].after].second_indices
       /\ calls[k].layer = matches[calls[k].after].layer
       /\ calls[k].targets = matches[calls[k].after].targets

\* a returned step over two auxiliary layers and the encoder layer whose
\* matcher calls did not all return the same assignment, with handler calls
\* on the final, an auxiliary and the encoder layer
C16_Witness ==
    /\ pc = "done"
    /\ Len(matches) = 4
    /\ \E i, j \in 1..Len(matches) : matches[i].indices # matches[j].indices
    /\ \A l \in {"final", LayerName(1), "enc"} : \E k \in 1..Len(calls) : calls[k].layer = l

\* C17: no step of forward changes the caller's targets, the rewriting of
\* the labels for the encoder layer included; the handlers of the final and
\* of the auxiliary layers are given the caller's targets, and only those of
\* the encoder layer the rewritten copy.
C17_TargetsUnchanged ==
    /\ [][targets' = targets]_vars
    /\ [](\A k \in 1..Len(calls) :
             calls[k].targets = IF calls[k].layer = "enc" THEN "bin_targets" ELSE "targets")

\* a returned step with auxiliary and encoder outputs whose encoder handlers
\* ran on a copy with labels that differ from the caller's
C17_Witness ==
    /\ pc = "done"
    /\ "aux_outputs" \in DOMAIN outputs
    /\ "enc_outputs" \in DOMAIN outputs
    /\ \E k \in 1..Len(calls) : calls[k].layer = "enc"
    /\ \E k \in 1..Len(calls) : calls[k].layer = LayerName(0)
    /\ \E b \in 1..Len(targets) : \E j \in 1..Len(targets[b].labels) :
          targets[b].labels[j] # 0 /\ bin_targets[b].labels[j] = 0

(***************************************************************************)
(* Properties of the loss handlers, checked under HandlerSpec.             *)
(***************************************************************************)
\* the other secondary assignments the handlers could have been given
OtherSecondaries == Assignments(Counts, Len(outputs.pred_boxes[1])) \ {second_indices}

\* C10: with outputs, targets, the primary assignment and num_boxes fixed,
\* loss_labels, loss_boxes and loss_cardinality return for every other
\* secondary assignment what they returned for the one they were given.
C10_PrimaryOnly ==
    pc = "returned" =>
       \A s2 \in OtherSecondaries :
          /\ loss_labels(self, outputs, targets, indices, s2, num_boxes, TRUE)
                = losses["labels"]
          /\ loss_boxes(self, outputs, targets, indices, s2, num_boxes) = losses["boxes"]
          /\ loss_cardinality(self, outputs, targets, indices, s2, num_boxes)
                = losses["cardinality"]

\* all handlers have returned, the batch has objects, and another secondary
\* assignment changes what loss_obj and loss_eobj return
C10_Witness ==
    /\ pc = "returned"
    /\ TotalBoxes > 0
    /\ \E s2 \in OtherSecondaries :
          /\ loss_obj(self, outputs, targets, indices, s2, num_boxes) # losses["objs"]
          /\ loss_eobj(self, outputs, targets, indices, s2, num_boxes) # losses["eobjs"]

(***************************************************************************)
(* A distributed run: every worker runs one SetCriterion.forward step on   *)
(* its own outputs and targets.  Every variable of the step holds one      *)
(* value per worker; world.tensors holds the tensors of the workers that   *)
(* have called all_reduce.  all_reduce is a blocking collective: a call    *)
(* returns, with the sum in place of the tensor, once every worker of the  *)
(* world has called.                                                       *)
(***************************************************************************)
NumWorkers == 2

Workers == 1..NumWorkers

\* the loss lists and batches of the distributed run; the workers run the
\* same model, so all of them have auxiliary and encoder outputs or none has
DistLossLists == {<<"cardinality">>, <<"masks">>, <<>>}

DistCounts == {<<0>>, <<1>>}

\* what a variable of a worker holds before the step assigns it
Unset == <<>>

DistInit ==
    /\ \E ls \in DistLossLists :
          self = [num_classes |-> 3, losses |-> ls, focal_alpha |-> Rat(1, 4)]
    /\ \E cv \in [Workers -> DistCounts] : \E aux \in {-1, 1} : \E enc \in BOOLEAN :
          /\ outputs = [w \in Workers |->
                           MkOutputs(Len(cv[w]), NumQueries(cv[w]), 3, aux, enc)]
          /\ targets = [w \in Workers |-> MkTargets(cv[w], 3, 0)]
    /\ world = [dist |-> TRUE, world_size |-> NumWorkers, tensors |-> <<>>]
    /\ pc = [w \in Workers |-> "match"]
    /\ indices = [w \in Workers |-> Unset]
    /\ second_indices = [w \in Workers |-> Unset]
    /\ num_boxes = [w \in Workers |-> Unset]
    /\ losses = [w \in Workers |-> Unset]
    /\ li = [w \in Workers |-> 0]
    /\ ai = [w \in Workers |-> 0]
    /\ bin_targets = [w \in Workers |-> Unset]
    /\ error = [w \in Workers |-> None]
    /\ reduces = [w \in Workers |-> 0]
    /\ calls = <<>> /\ matches = <<>>
    /\ heap = <<>> /\ target_sizes = <<>> /\ results = <<>>

\* util.misc.is_dist_avail_and_initialized(), never true
is_dist_avail_and_initialized_Never(w) == FALSE

\* util.misc.is_dist_avail_and_initialized()
is_dist_avail_and_initialized(w) == w.dist

\* what a matcher call of worker w leaves behind
WMatched(w, r) ==
    /\ indices' = [indices EXCEPT ![w] = r[1]]
    /\ second_indices' = [second_indices EXCEPT ![w] = r[2]]

\* lines 537-540
WMatch(w) ==
    /\ pc[w] = "match"
    /\ \E r \in {matcher(outputs_without_aux(outputs[w]), targets[w])} : WMatched(w, r)
    /\ pc' = [pc EXCEPT ![w] = "num_boxes"]
    /\ UNCHANGED <<self, outputs, targets, world, num_boxes, losses, li, ai,
                   bin_targets, error, calls, matches, reduces>>
    /\ UNCHANGED <<heap, target_sizes, results>>

\* lines 548-551: the division by the world size and the clamp of the tensor
\* t, and the empty dict of losses
WClamped(w, t) ==
    /\ \E mean \in {RDiv(t, RInt(get_world_size(world)))} :
          num_boxes' = [num_boxes EXCEPT ![w] = ClampMin1(mean)]
    /\ losses' = [losses EXCEPT ![w] = <<>>]
    /\ li' = [li EXCEPT ![w] = 1]
    /\ ai' = [ai EXCEPT ![w] = 0]
    /\ pc' = [pc EXCEPT ![w] = IF Len(self.losses) = 0 THEN AfterLayerOf(outputs[w], 0)
                               ELSE "final"]

\* lines 544-547: the local sum and, when distributed, the call of all_reduce;
\* without torch.distributed the step goes on at once
WNumBoxes(w) ==
    /\ pc[w] = "num_boxes"
    /\ IF is_dist_avail_and_initialized(world)
       THEN /\ world' = [world EXCEPT !.tensors = (w :> LocalBoxes(targets[w])) @@ @]
            /\ reduces' = [reduces EXCEPT ![w] = @ + 1]
            /\ num_boxes' = [num_boxes EXCEPT ![w] = LocalBoxes(targets[w])]
            /\ pc' = [pc EXCEPT ![w] = "all_reduce"]
            /\ UNCHANGED <<losses, li, ai>>
       ELSE /\ \E local \in {LocalBoxes(targets[w])} : WClamped(w, local)
            /\ UNCHANGED <<world, reduces>>
    /\ UNCHANGED <<self, outputs, targets, indices, second_indices, bin_targets, error,
                   calls, matches>>
    /\ UNCHANGED <<heap, target_sizes, results>>

\* lines 547-551: all_reduce returns once every worker has called it
WAllReduce(w) ==
    /\ pc[w] = "all_reduce"
    /\ DOMAIN world.tensors = Workers
    /\ \E sum \in {RSum(Table([v \in Workers |-> world.tensors[v]]))} : WClamped(w, sum)
    /\ UNCHANGED <<self, outputs, targets, world, indices, second_indices, bin_targets,
                   error, calls, matches, reduces>>
    /\ UNCHANGED <<heap, target_sizes, results>>

\* what a get_loss call of worker w that returned or raised r leaves behind
WCalled(w, r, suffix) ==
    /\ error' = [error EXCEPT ![w] = IF r.raised THEN r.error ELSE @]
    /\ losses' = [losses EXCEPT ![w] = IF r.raised THEN @ ELSE Update(@, Suffixed(r.dict, suffix))]

\* lines 552-554: one iteration of the loop over the final layer
WFinalLoss(w) ==
    /\ pc[w] = "final"
    /\ WCalled(w, get_loss(self, self.losses[li[w]], outputs[w], targets[w], indices[w],
                           second_indices[w], num_boxes[w], <<>>), "")
    /\ IF Raises(self.losses[li[w]])
       THEN pc' = [pc EXCEPT ![w] = "raised"] /\ li' = li
       ELSE /\ li' = [li EXCEPT ![w] = @ + 1]
            /\ pc' = [pc EXCEPT ![w] = IF li[w] = Len(self.losses)
                                       THEN AfterLayerOf(outputs[w], 0) ELSE "final"]
    /\ UNCHANGED <<self, outputs, targets, world, indices, second_indices, num_boxes,
                   ai, bin_targets, calls, matches, reduces>>
    /\ UNCHANGED <<heap, target_sizes, results>>

\* lines 559-560: a matcher call on auxiliary layer ai
WAuxMatch(w) ==
    /\ pc[w] = "aux_match"
    /\ \E r \in {matcher(At(outputs[w]["aux_outputs"], ai[w]), targets[w])} : WMatched(w, r)
    /\ li' = [li EXCEPT ![w] = 1]
    /\ pc' = [pc EXCEPT ![w] = IF Len(self.losses) = 0
                               THEN AfterLayerOf(outputs[w], ai[w] + 1) ELSE "aux"]
    /\ ai' = [ai EXCEPT ![w] = IF Len(self.losses) = 0 THEN @ + 1 ELSE @]
    /\ UNCHANGED <<self, outputs, targets, world, num_boxes, losses, bin_targets,
                   error, calls, matches, reduces>>
    /\ UNCHANGED <<heap, target_sizes, results>>

\* lines 561-572: one iteration of the loop over auxiliary layer ai
WAuxLoss(w) ==
    /\ pc[w] = "aux"
    /\ IF self.losses[li[w]] = "masks"
       THEN UNCHANGED <<losses, error>>
       ELSE WCalled(w, get_loss(self, self.losses[li[w]],
                                At(outputs[w]["aux_outputs"], ai[w]), targets[w],
                                indices[w], second_indices[w], num_boxes[w],
                                NoLog(self.losses[li[w]])),
                    "_" \o ToString(ai[w]))
    /\ IF self.losses[li[w]] # "masks" /\ Raises(self.losses[li[w]])
       THEN pc' = [pc EXCEPT ![w] = "raised"] /\ li' = li /\ ai' = ai
       ELSE /\ li' = [li EXCEPT ![w] = @ + 1]
            /\ pc' = [pc EXCEPT ![w] = IF li[w] = Len(self.losses)
                                       THEN AfterLayerOf(outputs[w], ai[w] + 1) ELSE "aux"]
            /\ ai' = [ai EXCEPT ![w] = IF li[w] = Len(self.losses) THEN @ + 1 ELSE @]
    /\ UNCHANGED <<self, outputs, targets, world, indices, second_indices, num_boxes,
                   bin_targets, calls, matches, reduces>>
    /\ UNCHANGED <<heap, target_sizes, results>>

\* lines 574-579
WEncMatch(w) ==
    /\ pc[w] = "enc_match"
    /\ bin_targets' = [bin_targets EXCEPT ![w] = BinTargets(deepcopy(targets[w]).value)]
    /\ targets' = [targets EXCEPT ![w] = AfterRewrite(@, deepcopy(@))]
    /\ \E r \in {matcher(outputs[w]["enc_outputs"], BinTargets(deepcopy(targets[w]).value))} :
          WMatched(w, r)
    /\ li' = [li EXCEPT ![w] = 1]
    /\ pc' = [pc EXCEPT ![w] = IF Len(self.losses) = 0 THEN "done" ELSE "enc"]
    /\ UNCHANGED <<self, outputs, world, num_boxes, losses, ai, error,
                   calls, matches, reduces>>
    /\ UNCHANGED <<heap, target_sizes, results>>

\* lines 580-591: one iteration of the loop over the encoder layer
WEncLoss(w) ==
    /\ pc[w] = "enc"
    /\ IF EncSkipped(self.losses[li[w]])
       THEN UNCHANGED <<losses, error>>
       ELSE WCalled(w, get_loss(self, self.losses[li[w]], outputs[w]["enc_outputs"],
                                bin_targets[w], indices[w], second_indices[w],
                                num_boxes[w], NoLog(self.losses[li[w]])),
                    "_enc")
    /\ IF ~EncSkipped(self.losses[li[w]]) /\ Raises(self.losses[li[w]])
       THEN pc' = [pc EXCEPT ![w] = "raised"] /\ li' = li
       ELSE /\ li' = [li EXCEPT ![w] = @ + 1]
            /\ pc' = [pc EXCEPT ![w] = IF li[w] = Len(self.losses) THEN "done" ELSE "enc"]
    /\ UNCHANGED <<self, outputs, targets, world, indices, second_indices, num_boxes,
                   ai, bin_targets, calls, matches, reduces>>
    /\ UNCHANGED <<heap, target_sizes, results>>

\* one step of worker w
WNext(w) ==
    \/ WMatch(w) \/ WNumBoxes(w) \/ WAllReduce(w) \/ WFinalLoss(w)
    \/ WAuxMatch(w) \/ WAuxLoss(w) \/ WEncMatch(w) \/ WEncLoss(w)

DistNext == \E w \in Workers : WNext(w)

\* every worker is a process of its own and keeps running while it can
DistSpec == DistInit /\ [][DistNext]_vars /\ \A w \in Workers : WF_vars(WNext(w))

(***************************************************************************)
(* DeformableDETR.__init__: the prediction heads of the layer slots.  A    *)
(* module instance is an identity in heap, holding its parameters; self is *)
(* the model under construction, its heads held by identity.               *)
(***************************************************************************)
MaxLayers == 2

Heads == {"class_embed", "bbox_embed", "object_head"}

\* a value an in-place write gives a parameter
Written == 5

\* a list that holds module itself N times
_get_clones_Shared(h, module, N) ==
    [heap |-> h, list |-> [i \in 1..N |-> module]]

\* nn.ModuleList([copy.deepcopy(module) for i in range(N)]): N new
\* instances, each with the parameters module has
_get_clones(h, module, N) ==
    [heap |-> [id \in 1..(Cardinality(DOMAIN h) + N) |->
                  IF id \in DOMAIN h THEN h[id] ELSE h[module]],
     list |-> [i \in 1..N |-> Cardinality(DOMAIN h) + i]]

\* lines 75-79 and 113-117: one class head, one box head and one objectness
\* head, the box head's last bias 0
BuildInit ==
    /\ \E refine \in BOOLEAN : \E two \in BOOLEAN : \E layers \in 1..MaxLayers :
          self = [with_box_refine |-> refine, two_stage |-> two, num_layers |-> layers,
                  class_embed |-> 1, bbox_embed |-> 2, object_head |-> 3]
    /\ heap = <<[bias |-> 1], [bias |-> 0], [bias |-> 0]>>
    /\ pc = "num_pred"
    /\ outputs = None /\ targets = None /\ world = None
    /\ indices = None /\ second_indices = None /\ num_boxes = None
    /\ losses = None /\ li = 0 /\ ai = 0 /\ bin_targets = None /\ error = None
    /\ calls = <<>> /\ matches = <<>> /\ reduces = 0
    /\ target_sizes = <<>> /\ results = <<>>

\* line 122
num_pred(model) == IF model.two_stage THEN model.num_layers + 1 ELSE model.num_layers

\* the three clone lists of lines 126-128, each made on the heap the one
\* before it left
ClonedHeads(model, h) ==
    [class_embed |-> _get_clones(h, model.class_embed, num_pred(model)).list,
     bbox_embed |-> _get_clones(_get_clones(h, model.class_embed, num_pred(model)).heap,
                                model.bbox_embed, num_pred(model)).list,
     object_head |-> _get_clones(
                        _get_clones(_get_clones(h, model.class_embed, num_pred(model)).heap,
                                    model.bbox_embed, num_pred(model)).heap,
                        model.object_head, num_pred(model)).list,
     heap |-> _get_clones(
                 _get_clones(_get_clones(h, model.class_embed, num_pred(model)).heap,
                             model.bbox_embed, num_pred(model)).heap,
                 model.object_head, num_pred(model)).heap]

\* what lines 126-128 and 135-137 leave in self for the lists c
WithHeads(model, c) ==
    [model EXCEPT !.class_embed = c.class_embed, !.bbox_embed = c.bbox_embed,
                  !.object_head = c.object_head]

\* lines 122-138: with box refinement every head is cloned per slot and the
\* bias of the first box head is set; without, the bias of the one box head
\* is set and every slot holds the one head
BuildHeads ==
    /\ pc = "num_pred"
    /\ IF self.with_box_refine
       THEN /\ self' = WithHeads(self, ClonedHeads(self, heap))
            /\ heap' = [ClonedHeads(self, heap).heap
                           EXCEPT ![ClonedHeads(self, heap).bbox_embed[1]].bias = -2]
       ELSE /\ self' = WithHeads(self, [h \in Heads |-> [i \in 1..num_pred(self) |-> self[h]]])
            /\ heap' = [heap EXCEPT ![self.bbox_embed].bias = -2]
    /\ pc' = "two_stage"
    /\ UNCHANGED <<outputs, targets, world, indices, second_indices, num_boxes, losses,
                   li, ai, bin_targets, error, calls, matches, reduces, target_sizes, results>>

\* lines 139-145: with two_stage the bias of every box head of the list is
\* set to 0
TwoStage ==
    /\ pc = "two_stage"
    /\ heap' = IF self.two_stage
               THEN [id \in DOMAIN heap |->
                        IF \E i \in 1..Len(self.bbox_embed) : self.bbox_embed[i] = id
                        THEN [heap[id] EXCEPT !.bias = 0] ELSE heap[id]]
               ELSE heap
    /\ pc' = "built"
    /\ UNCHANGED <<self, outputs, targets, world, indices, second_indices, num_boxes,
                   losses, li, ai, bin_targets, error, calls, matches, reduces, target_sizes, results>>

\* an in-place write of a parameter of the head of one slot, as line 129
\* makes through self.bbox_embed[0]
WriteParameter ==
    /\ pc = "built"
    /\ \E h \in Heads : \E i \in 1..Len(self[h]) :
          heap' = [heap EXCEPT ![self[h][i]].bias = Written]
    /\ UNCHANGED <<self, outputs, targets, world, pc, indices, second_indices, num_boxes,
                   losses, li, ai, bin_targets, error, calls, matches, reduces, target_sizes, results>>

BuildNext == BuildHeads \/ TwoStage \/ WriteParameter

BuildSpec == BuildInit /\ [][BuildNext]_vars

(***************************************************************************)
(* loss_obj and loss_eobj on heads of 3, 20, 21 and 91 classes: one image  *)
(* with one target; its primary pair has GIoU 1 and its secondary pair     *)
(* GIoU 8/10, so both are positive examples.                               *)
(***************************************************************************)
ClassCounts == {3, 20, 21, 91}

\* the logits of query q over nc classes, the largest of them at column hot
LogitRow(q, nc, hot) ==
    [c \in 1..nc |-> IF c = hot THEN 3 ELSE ((q + 2 * c) % 5) - 2]

ObjTargetInit ==
    /\ \E nc \in ClassCounts : \E hot \in 1..nc :
          /\ self = [num_classes |-> nc, losses |-> <<>>, focal_alpha |-> Rat(1, 4)]
          /\ outputs = [pred_logits |-> <<<<LogitRow(1, nc, hot), LogitRow(2, nc, hot)>>>>,
                        pred_boxes |-> <<<<PredBoxes[1], PredBoxes[3]>>>>,
                        obj |-> <<<<Rat(4, 10), Rat(7, 10)>>>>]
    /\ targets = <<[labels |-> <<0>>, boxes |-> <<TargetBoxes[1]>>]>>
    /\ indices = <<<<<<0>>, <<0>>>>>>
    /\ second_indices = <<<<<<1>>, <<0>>>>>>
    /\ world = [dist |-> FALSE, world_size |-> 1, remote |-> 0]
    /\ num_boxes = NumBoxesOf(targets, world)
    /\ pc = "objs"
    /\ losses = <<>> /\ li = 0 /\ ai = 0 /\ bin_targets = None /\ error = None
    /\ calls = <<>> /\ matches = <<>> /\ reduces = 0
    /\ heap = <<>> /\ target_sizes = <<>> /\ results = <<>>

ObjTargetNext == LossObj \/ LossEobj

ObjTargetSpec == ObjTargetInit /\ [][ObjTargetNext]_vars

(***************************************************************************)
(* The matcher on its own: one call on a batch of one decoder layer.       *)
(***************************************************************************)
MaxSeed == 2

\* the numbers of queries tried for a batch: from as many as its largest
\* image has targets up to as many as there are predicted boxes
QueryCounts(counts) == Max2(SeqMax(counts), 1)..Len(PredBoxes)

MatcherInit ==
    /\ self = [num_classes |-> 3, losses |-> <<>>, focal_alpha |-> Rat(1, 4)]
    /\ \E counts \in CountVectors : \E nq \in QueryCounts(counts) : \E seed \in 0..MaxSeed :
          /\ outputs = MkLayer(Len(counts), nq, 3, seed)
          /\ targets = MkTargets(counts, 3, 0)
    /\ world = [dist |-> FALSE, world_size |-> 1, remote |-> 0]
    /\ pc = "match"
    /\ indices = None /\ second_indices = None /\ num_boxes = None
    /\ losses = None /\ li = 0 /\ ai = 0 /\ bin_targets = None /\ error = None
    /\ calls = <<>> /\ matches = <<>> /\ reduces = 0
    /\ heap = <<>> /\ target_sizes = <<>> /\ results = <<>>

\* indices, second_indices = self.matcher(outputs, targets)
MatcherCall ==
    /\ pc = "match"
    /\ Matched("final", "targets", matcher(outputs, targets))
    /\ pc' = "matched"
    /\ UNCHANGED <<self, outputs, targets, world, num_boxes, losses, li, ai,
                   bin_targets, error, calls, reduces>>
    /\ UNCHANGED <<heap, target_sizes, results>>

MatcherNext == MatcherCall

MatcherSpec == MatcherInit /\ [][MatcherNext]_vars

(***************************************************************************)
(* Properties of loss_labels, checked under HandlerSpec.                   *)
(***************************************************************************)
\* the one-hot matrix loss_labels handed to sigmoid_focal_loss
OnehotGiven == losses["labels"]["loss_ce"].args[2]

\* the pairs k of image b (from 1) of the primary assignment that hold query
\* q (from 1)
PairsOf(b, q) == {k \in 1..Len(indices[b][1]) : indices[b][1][k] = q - 1}

\* the label of the target the k-th pair of image b assigns
LabelOfPair(b, k) == At(targets[b].labels, indices[b][2][k])

\* targets with the targets of image b reordered: the new j-th is the old
\* perm[j]-th
PermutedTargets(b, perm) ==
    [targets EXCEPT ![b] = [labels |-> [j \in 1..Len(perm) |-> targets[b].labels[perm[j]]],
                            boxes |-> [j \in 1..Len(perm) |-> targets[b].boxes[perm[j]]]]]

\* the primary assignment with the target indices of image b following the
\* reordering
PermutedIndices(b, perm) ==
    [indices EXCEPT ![b] =
        <<indices[b][1],
          [k \in 1..Len(indices[b][2]) |->
              (CHOOSE j \in 1..Len(perm) : perm[j] = indices[b][2][k] + 1) - 1]>>]

\* C11: the classification target has one row of num_classes columns per
\* query; the row of a query the primary assignment pairs with a target has
\* a single 1, at the target's label, and the row of any other query is all
\* zero; reordering the targets of an image together with the assignment's
\* target indices leaves what loss_labels returns unchanged.
C11_OnehotTarget ==
    "labels" \in DOMAIN losses =>
       /\ \A b \in 1..Len(outputs.pred_logits) : \A q \in 1..Len(outputs.pred_logits[b]) :
             /\ DOMAIN OnehotGiven[b][q] = 1..self.num_classes
             /\ \A c \in 1..self.num_classes :
                   OnehotGiven[b][q][c]
                      = IF \E k \in PairsOf(b, q) : LabelOfPair(b, k) = c - 1 THEN 1 ELSE 0
       /\ \A b \in 1..Len(targets) : \A perm \in Permutations(1..Len(targets[b].labels)) :
             loss_labels(self, outputs, PermutedTargets(b, perm), PermutedIndices(b, perm),
                         second_indices, num_boxes, TRUE)
                = losses["labels"]

\* loss_labels has returned for a batch with an image of two or more targets
\* that do not all share a label, and a query of it is left unmatched
C11_Witness ==
    /\ "labels" \in DOMAIN losses
    /\ \E b \in 1..Len(targets) :
          /\ Len(targets[b].labels) >= 2
          /\ \E j \in 1..Len(targets[b].labels) : targets[b].labels[j] # targets[b].labels[1]
          /\ \E q \in 1..Len(outputs.pred_logits[b]) : PairsOf(b, q) = {}

(***************************************************************************)
(* Properties of loss_obj and loss_eobj, checked under HandlerSpec.        *)
(***************************************************************************)
\* the three lists the two loops of loss_obj leave for the state's arguments
\* (those of loss_eobj differ in iou_list only)
ListsNow == ObjLists(TRUE, outputs, targets, indices, second_indices)

\* the sum over a list of objectness values of |objectness - 0.5|, divided
\* by num_boxes
NegativeTerm(list) ==
    RDiv(RSum([k \in 1..Len(list) |-> RAbs(RSub(list[k], Rat(1, 2)))]), num_boxes)

\* both objectness handlers have returned
ObjReturned == {"objs", "eobjs"} \subseteq DOMAIN losses

\* C12, as stated: when no pair of either assignment has GIoU > 0.6, both
\* handlers return the sum over the negative examples of |objectness - 0.5|
\* divided by num_boxes.
C12_NegativeTermAlone ==
    (ObjReturned /\ Len(ListsNow.obj_list) = 0) =>
       /\ losses["objs"] = ("loss_object" :> NegativeTerm(ListsNow.negative_list))
       /\ losses["eobjs"] = ("loss_eobject" :> NegativeTerm(ListsNow.negative_list))

\* C12, amended: when no pair of either assignment has GIoU > 0.6 and there
\* is a negative example, both handlers return the sum over the negative
\* examples of |objectness - 0.5| divided by num_boxes; when there is no
\* pair at all, they return 0.5 / num_boxes, the placeholder of the negative
\* branch against the target 0.5.  The placeholder is 0 whatever the
\* objectness values are.
C12_Degenerate ==
    (ObjReturned /\ Len(ListsNow.obj_list) = 0) =>
       /\ Placeholder(outputs) = RInt(0)
       /\ Len(ListsNow.negative_list) > 0 =>
             /\ losses["objs"] = ("loss_object" :> NegativeTerm(ListsNow.negative_list))
             /\ losses["eobjs"] = ("loss_eobject" :> NegativeTerm(ListsNow.negative_list))
       /\ Len(ListsNow.negative_list) = 0 =>
             /\ losses["objs"] = ("loss_object" :> RDiv(Rat(1, 2), num_boxes))
             /\ losses["eobjs"] = ("loss_eobject" :> RDiv(Rat(1, 2), num_boxes))

\* both handlers have returned for a batch with targets in two images, none
\* of whose pairs has GIoU > 0.6
C12_Witness ==
    /\ ObjReturned
    /\ Len(ListsNow.obj_list) = 0
    /\ \A b \in 1..Len(targets) : Len(targets[b].labels) > 0
    /\ Len(ListsNow.negative_list) >= 4

\* the pairs of an assignment in flattened order: image after image, each
\* with its image b, query q and target t, all from 1
FlatPairs(ind) ==
    Cat([i \in 1..Len(ind) |->
            [k \in 1..Len(ind[i][1]) |->
                [b |-> i, q |-> ind[i][1][k] + 1, t |-> ind[i][2][k] + 1]]])

\* the GIoU of the predicted box of a pair's query with the box of its target
PairGIoU(p) ==
    generalized_box_iou(box_cxcywh_to_xyxy(outputs.pred_boxes[p.b][p.q]),
                        box_cxcywh_to_xyxy(targets[p.b].boxes[p.t]))

\* the objectness of a pair's own query
OwnObjectness(p) == outputs.obj[p.b][p.q]

\* the positions of a list of pairs whose GIoU is, or is not, above 6/10
Above(pairs) ==
    SelectSeq(Indices1(Len(pairs)), LAMBDA k : RLess(Rat(6, 10), PairGIoU(pairs[k])))

NotAbove(pairs) ==
    SelectSeq(Indices1(Len(pairs)), LAMBDA k : ~RLess(Rat(6, 10), PairGIoU(pairs[k])))

\* the positive examples the claim describes: the own objectness of every
\* pair above the threshold, primary pairs first
ClaimedPositives(first, second) ==
    [j \in 1..Len(Above(first)) |-> OwnObjectness(first[Above(first)[j]])]
    \o [j \in 1..Len(Above(second)) |-> OwnObjectness(second[Above(second)[j]])]

\* the negative examples the claim describes: for every pair not above the
\* threshold the objectness of the primary assignment's query at the pair's
\* flattened position
ClaimedNegatives(first, second) ==
    [j \in 1..Len(NotAbove(first)) |-> OwnObjectness(first[NotAbove(first)[j]])]
    \o [j \in 1..Len(NotAbove(second)) |-> OwnObjectness(first[NotAbove(second)[j]])]

\* C14: every pair of the primary and of the secondary assignment gives one
\* example; it is positive iff its GIoU is strictly above 0.6, and then it is
\* the objectness of the pair's own query; otherwise it is negative, with
\* target 0.5, and it is the objectness of the primary assignment's query at
\* the pair's flattened position, also for a pair of the secondary
\* assignment.  Both handlers return the loss of these examples.
C14_Examples ==
    ObjReturned =>
       /\ Len(ListsNow.obj_list) + Len(ListsNow.negative_list)
             = Len(FlatPairs(indices)) + Len(FlatPairs(second_indices))
       /\ ListsNow.obj_list = ClaimedPositives(FlatPairs(indices), FlatPairs(second_indices))
       /\ ListsNow.negative_list
             = ClaimedNegatives(FlatPairs(indices), FlatPairs(second_indices))
       /\ Len(ListsNow.negative_list) > 0 /\ Len(ListsNow.obj_list) > 0 =>
             /\ losses["objs"]["loss_object"]
                   = RAdd(RDiv(L1Sum(ListsNow.obj_list, ListsNow.iou_list), num_boxes),
                          NegativeTerm(ListsNow.negative_list))
             /\ losses["eobjs"]["loss_eobject"]
                   = RAdd(RDiv(L1Sum(ListsNow.obj_list,
                                     ObjLists(FALSE, outputs, targets, indices,
                                              second_indices).iou_list), num_boxes),
                          NegativeTerm(ListsNow.negative_list))

\* both handlers have returned; some pair has GIoU exactly 6/10, some pair
\* is above it, and a pair of the secondary assignment that is not above it
\* stands at a position where the primary assignment holds another query
\* with another objectness
C14_Witness ==
    /\ ObjReturned
    /\ \E k \in 1..Len(FlatPairs(indices)) : PairGIoU(FlatPairs(indices)[k]) = Rat(6, 10)
    /\ Len(ListsNow.obj_list) > 0
    /\ \E k \in 1..Len(FlatPairs(second_indices)) :
          /\ ~RLess(Rat(6, 10), PairGIoU(FlatPairs(second_indices)[k]))
          /\ FlatPairs(second_indices)[k].q # FlatPairs(indices)[k].q
          /\ OwnObjectness(FlatPairs(second_indices)[k]) # OwnObjectness(FlatPairs(indices)[k])

\* a position (image, query), both from 0, that outputs['obj'] holds
ValidPosition(b, q) ==
    /\ b \in 0..(Len(outputs.obj) - 1)
    /\ q \in 0..(Len(At(outputs.obj, b)) - 1)

\* every position of a permutation index is one outputs['obj'] holds
ValidPositions(idx) ==
    \A count \in 0..(Len(idx[1]) - 1) : ValidPosition(At(idx[1], count), At(idx[2], count))

\* C18: when the secondary assignment of every image has as many pairs as
\* the primary one, every count of the loop over the secondary pairs is
\* within the primary index tuples, every position read from outputs['obj']
\* (the pairs' own and the placeholder's [0][0]) is one it holds, and both
\* handlers return, also for a batch without targets.
C18_ReadsInRange ==
    (\A i \in 1..Len(indices) : Len(second_indices[i][1]) = Len(indices[i][1])) =>
       /\ \A count \in 0..(Len(_get_src_permutation_idx(second_indices)[1]) - 1) :
             /\ count < Len(_get_src_permutation_idx(indices)[1])
             /\ count < Len(_get_src_permutation_idx(indices)[2])
       /\ ValidPositions(_get_src_permutation_idx(indices))
       /\ ValidPositions(_get_src_permutation_idx(second_indices))
       /\ ValidPosition(0, 0)
       /\ pc \in {"masks", "returned"} => ObjReturned

\* both handlers have returned for a batch without targets
C18_Witness ==
    /\ ObjReturned
    /\ \A b \in 1..Len(targets) : Len(targets[b].labels) = 0
    /\ Len(ListsNow.negative_list) = 0

\* the positive targets of loss_eobj for the state's arguments
EobjTargetsNow == ObjLists(FALSE, outputs, targets, indices, second_indices).iou_list

\* the positive-branch term: the sum over the positive examples of
\* |objectness - target|, divided by num_boxes
PositiveTerm(iou_list) == RDiv(L1Sum(ListsNow.obj_list, iou_list), num_boxes)

\* C19: with a positive example and no negative example both handlers
\* return the positive-branch term plus 0.5 / num_boxes; the list tested by
\* the second 'len(obj_list) == 0' is never empty, and what the handlers
\* return is always the sum of the positive and the negative term of the
\* lists with their placeholders.
C19_ConstantNegativeTerm ==
    ObjReturned =>
       /\ (Len(ListsNow.obj_list) > 0 /\ Len(ListsNow.negative_list) = 0) =>
             /\ losses["objs"]["loss_object"]
                   = RAdd(PositiveTerm(ListsNow.iou_list), RDiv(Rat(1, 2), num_boxes))
             /\ losses["eobjs"]["loss_eobject"]
                   = RAdd(PositiveTerm(EobjTargetsNow), RDiv(Rat(1, 2), num_boxes))
       /\ Len(WithPlaceholder(ListsNow.obj_list, outputs)) > 0
       /\ losses["objs"]["loss_object"]
             = RAdd(RDiv(L1Sum(WithPlaceholder(ListsNow.obj_list, outputs), ListsNow.iou_list),
                         num_boxes),
                    NegativeTerm(WithPlaceholder(ListsNow.negative_list, outputs)))
       /\ losses["eobjs"]["loss_eobject"]
             = RAdd(RDiv(L1Sum(WithPlaceholder(ListsNow.obj_list, outputs), EobjTargetsNow),
                         num_boxes),
                    NegativeTerm(WithPlaceholder(ListsNow.negative_list, outputs)))

\* both handlers have returned for a batch all of whose pairs, two or more,
\* have GIoU > 0.6
C19_Witness ==
    /\ ObjReturned
    /\ Len(ListsNow.obj_list) >= 2
    /\ Len(ListsNow.negative_list) = 0

(***************************************************************************)
(* Properties of the matcher, checked under MatcherSpec.                   *)
(***************************************************************************)
\* the images of the batch, from 1
Images == 1..Len(targets)

NumTargets(b) == Len(targets[b].labels)

NumQueriesOf(b) == Len(outputs.pred_boxes[b])

\* an index pair of one image that pairs distinct queries with distinct
\* targets, all of them in range
OneToOne(pair, b) ==
    /\ Len(pair[1]) = Len(pair[2])
    /\ \A k \in 1..Len(pair[1]) :
          /\ pair[1][k] \in 0..(NumQueriesOf(b) - 1)
          /\ pair[2][k] \in 0..(NumTargets(b) - 1)
    /\ \A j, k \in 1..Len(pair[1]) :
          j # k => pair[1][j] # pair[1][k] /\ pair[2][j] # pair[2][k]

C4_AllReduceOnce ==
    /\ [](\A w \in Workers :
             reduces[w] = IF pc[w] \in {"match", "num_boxes"} THEN 0 ELSE 1)
    /\ \A w \in Workers : (pc[w] = "all_reduce") ~> (pc[w] # "all_reduce")

\* every worker has ended its step; one had no targets, and one had targets,
\* auxiliary outputs and encoder outputs
C4_Witness ==
    /\ \A w \in Workers : pc[w] = "done" /\ reduces[w] = 1
    /\ \E w \in Workers : LocalBoxes(targets[w]) = RInt(0)
    /\ \E w \in Workers :
          /\ LocalBoxes(targets[w]) # RInt(0)
          /\ {"aux_outputs", "enc_outputs"} \subseteq DOMAIN outputs[w]
    /\ Len(self.losses) > 0

(***************************************************************************)
(* Properties of the constructed heads, checked under BuildSpec.           *)
(***************************************************************************)
\* the parameters of the head h of slot i
SlotParameters(h, i) == heap[self[h][i]]

\* C13: once the model is built, every head list has num_pred slots; with
\* box refinement the heads of two distinct slots are distinct instances,
\* and a write of one slot's parameters leaves the parameters of every
\* other slot as they were; without it, all slots of a head hold one and the
\* same instance.
C13_HeadInstances ==
    /\ [](pc = "built" =>
             \A h \in Heads :
                /\ Len(self[h]) = num_pred(self)
                /\ \A i, j \in 1..num_pred(self) :
                      IF self.with_box_refine
                      THEN i # j => self[h][i] # self[h][j]
                      ELSE self[h][i] = self[h][j])
    /\ [][(pc = "built" /\ self.with_box_refine) =>
             \A h \in Heads : \A i, j \in 1..num_pred(self) :
                (i # j /\ SlotParameters(h, i)' # SlotParameters(h, i))
                   => SlotParameters(h, j)' = SlotParameters(h, j)]_vars

\* a model built with box refinement and more than one slot, after a write
\* that changed the first class head alone
C13_Witness ==
    /\ pc = "built"
    /\ self.with_box_refine
    /\ num_pred(self) > 1
    /\ SlotParameters("class_embed", 1).bias = Written
    /\ SlotParameters("class_embed", 2).bias # Written

(***************************************************************************)
(* Properties of the positive targets, checked under ObjTargetSpec.        *)
(***************************************************************************)
\* the sum, in hundredths, of the k largest sigmoid values of a row of
\* logits, taking the logits from value v downwards
RECURSIVE TakeTop(_, _, _)
TakeTop(row, v, k) ==
    IF k = 0 \/ v < -3 THEN 0
    ELSE Min2(k, Cardinality({c \in DOMAIN row : row[c] = v})) * SigmoidPercent(v)
         + TakeTop(row, v - 1, k - Min2(k, Cardinality({c \in DOMAIN row : row[c] = v})))

\* the sum of the 20 largest class probabilities of the query of a pair
TopTwentyMass(p) == Rat(TakeTop(outputs.pred_logits[p.b][p.q], 3, 20), 100)

\* the pairs of both assignments that are positive examples, primary first
PositivePairs ==
    [j \in 1..Len(Above(FlatPairs(indices))) |->
        FlatPairs(indices)[Above(FlatPairs(indices))[j]]]
    \o [j \in 1..Len(Above(FlatPairs(second_indices))) |->
        FlatPairs(second_indices)[Above(FlatPairs(second_indices))[j]]]

\* C15: the target of every positive example of loss_obj is
\* 0.6 * GIoU + 0.4 * S and that of loss_eobj is S, where S is the sum of the
\* 20 largest class probabilities of the example's query, for any number of
\* classes.
C15_TopTwentyTargets ==
    /\ ObjLists(TRUE, outputs, targets, indices, second_indices).iou_list
          = [j \in 1..Len(PositivePairs) |->
                RAdd(RMul(PairGIoU(PositivePairs[j]), Rat(6, 10)),
                     RMul(Rat(4, 10), TopTwentyMass(PositivePairs[j])))]
    /\ ObjLists(FALSE, outputs, targets, indices, second_indices).iou_list
          = [j \in 1..Len(PositivePairs) |-> TopTwentyMass(PositivePairs[j])]

(***************************************************************************)
(* PostProcess.forward (lines 598-628).  torch.topk is modelled by what it *)
(* does: the k largest entries in descending order, entries of equal value *)
(* in an order the library does not fix (lowest position first or highest  *)
(* position first here), and an error when k exceeds the length.           *)
(***************************************************************************)
\* line 614: the number of entries the post-processor asks topk for
TopKCount == 100

Min(S) == CHOOSE x \in S : \A y \in S : x <= y
Max(S) == -Min({-x : x \in S})

TieOrders == {"low", "high"}

\* the positions lo..hi that hold the key v, ascending ("low") or descending
\* ("high"), by halves
RECURSIVE Holding(_, _, _, _, _)
Holding(keys, v, lo, hi, tie) ==
    IF hi < lo THEN <<>>
    ELSE IF lo = hi THEN (IF keys[lo] = v THEN <<lo>> ELSE <<>>)
    ELSE IF tie = "low"
         THEN Holding(keys, v, lo, (lo + hi) \div 2, tie)
              \o Holding(keys, v, ((lo + hi) \div 2) + 1, hi, tie)
    ELSE Holding(keys, v, ((lo + hi) \div 2) + 1, hi, tie)
         \o Holding(keys, v, lo, (lo + hi) \div 2, tie)

First(s, m) == SubSeq(s, 1, Min2(m, Len(s)))

\* the positions of the k largest keys: value by value from the largest
\* of the values left down
RECURSIVE TopFrom(_, _, _, _)
TopRest(keys, values, k, tie, head) ==
    head \o TopFrom(keys, values, k - Len(head), tie)
TopLevel(keys, values, k, tie, largest) ==
    TopRest(keys, values \ {largest}, k, tie,
            First(Holding(keys, largest, 1, Len(keys), tie), k))
TopFrom(keys, values, k, tie) ==
    IF k = 0 \/ values = {} THEN <<>>
    ELSE TopLevel(keys, values, k, tie, Max(values))

ZeroBased(t) == [r \in 1..Len(t) |-> t[r] - 1]

\* torch.topk(keys, k): the 0-based indices of the k largest keys, or the
\* RuntimeError it raises when there are fewer than k keys
topk(keys, k, tie) ==
    IF k > Len(keys) THEN [raised |-> "RuntimeError", indices |-> <<>>]
    ELSE [raised |-> None, indices |-> ZeroBased(TopFrom(keys, {keys[f] : f \in DOMAIN keys}, k, tie))]

\* line 613 with prob.view(B, -1) of line 614, for one image: the score in
\* hundredths at flat position f + 1 is that of query f div C, class f mod C
FlatProb(logits) ==
    Table([f \in 1..(Len(logits) * Len(logits[1])) |->
              SigmoidPercent(logits[((f - 1) \div Len(logits[1])) + 1]
                                   [((f - 1) % Len(logits[1])) + 1])])

\* a scale_fct in the order of target_sizes: [img_h, img_w, img_h, img_w]
scale_fct_HeightFirst(size) == <<size[1], size[2], size[1], size[2]>>

\* lines 622-623: target_sizes holds (img_h, img_w); scale_fct is
\* [img_w, img_h, img_w, img_h]
scale_fct(size) == <<size[2], size[1], size[2], size[1]>>

\* lines 618 and 624 on one box
Scaled(box, size) ==
    [k \in 1..4 |-> RMul(box_cxcywh_to_xyxy(box)[k], RInt(scale_fct(size)[k]))]

\* lines 615-626 for one image, topk_indexes being what topk returned
PostResult(logits, prob, boxes, size, topk_indexes) ==
    [scores |-> [r \in 1..Len(topk_indexes) |-> Rat(prob[topk_indexes[r] + 1], 100)],
     labels |-> [r \in 1..Len(topk_indexes) |-> topk_indexes[r] % Len(logits[1])],
     boxes |-> [r \in 1..Len(topk_indexes) |->
                   Scaled(At(boxes, topk_indexes[r] \div Len(logits[1])), size)]]

PostImage(logits, prob, boxes, size, tie) ==
    PostResult(logits, prob, boxes, size, topk(prob, TopKCount, tie).indices)

\* the flattened grid of every image has Q * C entries, so topk raises for
\* all images or for none
PostRaises(o) ==
    topk(FlatProb(o.pred_logits[1]), TopKCount, "low").raised

PostProcessForward ==
    /\ pc = "post"
    /\ \E tie \in TieOrders :
          IF "obj" \notin DOMAIN outputs
          THEN error' = "KeyError" /\ UNCHANGED <<results, calls>>
          ELSE IF Len(outputs.pred_logits) # Len(target_sizes)
                  \/ \E b \in DOMAIN target_sizes : Len(target_sizes[b]) # 2
          THEN error' = "AssertionError" /\ UNCHANGED <<results, calls>>
          ELSE IF PostRaises(outputs) # None
          THEN error' = PostRaises(outputs) /\ UNCHANGED <<results, calls>>
          ELSE /\ results' = [b \in DOMAIN target_sizes |->
                                 PostImage(outputs.pred_logits[b],
                                           FlatProb(outputs.pred_logits[b]),
                                           outputs.pred_boxes[b], target_sizes[b], tie)]
               /\ calls' = <<[fn |-> "torch.topk",
                              returned |-> [b \in DOMAIN target_sizes |->
                                  topk(FlatProb(outputs.pred_logits[b]),
                                       TopKCount, tie).indices]]>>
               /\ UNCHANGED error
    /\ pc' = "done"
    /\ UNCHANGED <<self, outputs, targets, world, indices, second_indices, num_boxes,
                   losses, li, ai, bin_targets, matches, reduces, heap, target_sizes>>

(***************************************************************************)
(* The post-processor on its own: batches of one or two images of 5 x 3,   *)
(* 5 x 20 and 6 x 20 scores whose boxes, all with cx, cy, w, h in [0, 1],   *)
(* lie inside the image, touch its border or reach over it.                *)
(***************************************************************************)
PostShapes == {<<5, 3>>, <<5, 20>>, <<6, 20>>}
PostSizes == {<<100, 200>>, <<480, 640>>}
PostBoxes == <<MkBox(5, 5, 4, 4), MkBox(5, 5, 10, 10), MkBox(3, 7, 2, 2),
               MkBox(1, 1, 4, 4), MkBox(9, 5, 4, 2)>>

\* the boxes of seed 0 are the first three, those inside the image
PostBox(q, b, seed) ==
    IF seed = 0 THEN PostBoxes[((q + b) % 3) + 1]
    ELSE PostBoxes[((q + b + seed) % Len(PostBoxes)) + 1]

PostOutputs(nb, nq, nc, seed) ==
    [pred_logits |-> [b \in 1..nb |-> [q \in 1..nq |-> [c \in 1..nc |->
                        ((3 * q + 5 * c + b + seed * q * c) % 7) - 3]]],
     pred_boxes |-> [b \in 1..nb |-> [q \in 1..nq |-> PostBox(q, b, seed)]],
     obj |-> [b \in 1..nb |-> [q \in 1..nq |-> Rat((3 * q + b + 2 * seed) % 11, 10)]]]

PostInit ==
    /\ \E shape \in PostShapes : \E seed \in 0..MaxSeed : \E nb \in 1..2 :
          /\ outputs = PostOutputs(nb, shape[1], shape[2], seed)
          /\ target_sizes \in [1..nb -> PostSizes]
    /\ self = <<>> /\ targets = <<>>
    /\ world = [dist |-> FALSE, world_size |-> 1, remote |-> 0]
    /\ pc = "post"
    /\ indices = None /\ second_indices = None /\ num_boxes = None
    /\ losses = None /\ li = 0 /\ ai = 0 /\ bin_targets = None /\ error = None
    /\ calls = <<>> /\ matches = <<>> /\ reduces = 0
    /\ heap = <<>> /\ results = <<>>

PostNext == PostProcessForward

PostSpec == PostInit /\ [][PostNext]_vars

(***************************************************************************)
(* PostProcess.forward: the claims.                                        *)
(***************************************************************************)
PostReturned == pc = "done" /\ error = None /\ results # <<>>

\* the number of scores of the flattened grid of one image
GridSize == Len(outputs.pred_logits[1]) * Len(outputs.pred_logits[1][1])
NumClassesOut == Len(outputs.pred_logits[1][1])

\* an xyxy box in pixels lies within [0, w] x [0, h] of an image of size
\* (h, w)
WithinImage(box, size) ==
    /\ RLeq(RInt(0), box[1]) /\ RLeq(box[1], RInt(size[2]))
    /\ RLeq(RInt(0), box[3]) /\ RLeq(box[3], RInt(size[2]))
    /\ RLeq(RInt(0), box[2]) /\ RLeq(box[2], RInt(size[1]))
    /\ RLeq(RInt(0), box[4]) /\ RLeq(box[4], RInt(size[1]))

\* C6: PostProcess.forward returns, for every image of Q queries and C
\* classes with normalized cxcywh boxes and true size (h, w), a detection
\* list whose boxes all lie within [0, w] x [0, h] pixels; so it does on 5
\* queries x 3 classes with target_size (100, 200).
C6_BoxesWithinImage ==
    pc = "done" =>
        /\ error = None
        /\ \A b \in DOMAIN target_sizes : \A r \in DOMAIN results[b].boxes :
              WithinImage(results[b].boxes[r], target_sizes[b])

\* the score in hundredths of the 0-based flat index f of image b
ScoreAt(b, f) ==
    SigmoidPercent(outputs.pred_logits[b][(f \div NumClassesOut) + 1]
                                         [(f % NumClassesOut) + 1])

\* the flat indices returned for image b are 100 different ones of the
\* grid and no index left out has a higher score than one returned
HighestHundred(b, idx) ==
    /\ Len(idx) = 100
    /\ \A r \in DOMAIN idx : idx[r] \in 0..(GridSize - 1)
    /\ \A r, t \in DOMAIN idx : r # t => idx[r] # idx[t]
    /\ \A f \in 0..(GridSize - 1) :
          (\A r \in DOMAIN idx : idx[r] # f)
              => \A r \in DOMAIN idx : ScoreAt(b, f) <= ScoreAt(b, idx[r])

\* the entry r of the result of image b is the one of flat index f
EntryOf(b, r, f) ==
    /\ results[b].labels[r] = f % NumClassesOut
    /\ results[b].scores[r]
          = sigmoid(outputs.pred_logits[b][(f \div NumClassesOut) + 1]
                                          [(f % NumClassesOut) + 1])
    /\ results[b].boxes[r]
          = [k \in 1..4 |->
                RMul(box_cxcywh_to_xyxy(outputs.pred_boxes[b][(f \div NumClassesOut) + 1])[k],
                     RInt(<<target_sizes[b][2], target_sizes[b][1],
                            target_sizes[b][2], target_sizes[b][1]>>[k]))]

\* C7: for Q * C >= 100, PostProcess.forward returns exactly the 100
\* (query, class) pairs with the highest sigmoid scores over the whole
\* flattened grid; the entry of flat index f has label f mod C, score
\* sigmoid(logit[f div C][f mod C]) and the box of query f div C as corners
\* multiplied by (img_w, img_h, img_w, img_h).
C7_TopHundred ==
    (pc = "done" /\ GridSize >= 100) =>
        /\ error = None
        /\ \A b \in DOMAIN target_sizes :
              /\ HighestHundred(b, calls[1].returned[b])
              /\ Len(results[b].scores) = 100
              /\ Len(results[b].labels) = 100
              /\ Len(results[b].boxes) = 100
              /\ \A r \in 1..100 : EntryOf(b, r, calls[1].returned[b][r])

\* a returned batch of two images of more than 100 scores each, the 100th
\* and the 101st score of the first image being equal
C7_Witness ==
    /\ PostReturned
    /\ GridSize > 100
    /\ Len(results) = 2
    /\ \E f \in 0..(GridSize - 1) :
          /\ \A r \in 1..100 : calls[1].returned[1][r] # f
          /\ \E r \in 1..100 : ScoreAt(1, f) = ScoreAt(1, calls[1].returned[1][r])

(***************************************************************************)
(* NMSPostProcess.forward (lines 634-687).  torchvision's batched_nms is   *)
(* modelled by what it does: the candidates in descending order of score   *)
(* (equal scores in an order the library does not fix), each kept unless a *)
(* candidate of the same label kept before it has IoU above the threshold  *)
(* with it; the positions of the kept candidates in that order.            *)
(***************************************************************************)
\* lines 674-675: the cap on the candidates
PreTopK == 10000
\* line 680: the IoU threshold and the number of detections kept
IouThreshold == Rat(7, 10)
MaxDetections == 100

\* lines 674-678: the flat indices of the candidates, by position
PreTopKRule(n) == n > PreTopK
Candidates(prob, tie) ==
    IF PreTopKRule(Len(prob)) THEN topk(prob, PreTopK, tie).indices
    ELSE [r \in 1..Len(prob) |-> r - 1]

\* lines 656-657 with 672 and 678: the label and the query of the candidate
\* at each position
Lbls(logits, cand) == Table([r \in 1..Len(cand) |-> cand[r] % Len(logits[1])])
Queries(logits, cand) == Table([r \in 1..Len(cand) |-> cand[r] \div Len(logits[1])])
\* lines 660 and 666: the box of each query as corners in pixels
Corners(boxes, size) == Table([q \in 1..Len(boxes) |-> Scaled(boxes[q], size)])

\* a test against a threshold of 9/10
Overlaps_Loose(x, y) == RLess(Rat(9, 10), box_iou(x, y))

\* the candidate at position p is suppressed by one of the positions kept
Overlaps(x, y) == RLess(IouThreshold, box_iou(x, y))
Suppressed(lbls, qs, xyxy, kept, p) ==
    \E j \in DOMAIN kept :
        /\ lbls[kept[j]] = lbls[p]
        /\ Overlaps(xyxy[qs[kept[j]] + 1], xyxy[qs[p] + 1])

\* batched_nms(box, score, lbls, 0.7)[:limit]: the positions in order of
\* score are gone through until limit of them are kept
RECURSIVE NmsFrom(_, _, _, _, _, _, _)
NmsFrom(lbls, qs, xyxy, order, i, kept, limit) ==
    IF i > Len(order) \/ Len(kept) = limit THEN kept
    ELSE NmsFrom(lbls, qs, xyxy, order, i + 1,
                 IF Suppressed(lbls, qs, xyxy, kept, order[i]) THEN kept
                 ELSE Append(kept, order[i]),
                 limit)

ScoreKeys(prob, cand) == Table([r \in 1..Len(cand) |-> prob[cand[r] + 1]])
InOrder(keys, tie) == TopFrom(keys, {keys[r] : r \in DOMAIN keys}, Len(keys), tie)

\* line 680: keep_inds, as 1-based positions among the candidates
keep_inds(lbls, qs, xyxy, order) ==
    NmsFrom(lbls, qs, xyxy, order, 1, <<>>, MaxDetections)

\* lines 681-685
NmsResult(prob, cand, lbls, qs, xyxy, keep) ==
    [scores |-> [r \in 1..Len(keep) |-> Rat(prob[cand[keep[r]] + 1], 100)],
     labels |-> [r \in 1..Len(keep) |-> lbls[keep[r]]],
     boxes |-> [r \in 1..Len(keep) |-> xyxy[qs[keep[r]] + 1]]]

\* lines 672-685 for one image: t holds box (as queries and corners),
\* score and lbls of the candidates
NmsKept(t) ==
    Once(LAMBDA keep : NmsResult(t.prob, t.cand, t.lbls, t.qs, t.xyxy, keep),
         keep_inds(t.lbls, t.qs, t.xyxy, t.order))

\* lines 670-685 for one image, cand being the candidates of lines 674-678
NmsCandidates(logits, boxes, size, prob, cand, tie) ==
    Once(NmsKept, [prob |-> prob, cand |-> cand,
                   lbls |-> Lbls(logits, cand), qs |-> Queries(logits, cand),
                   xyxy |-> Corners(boxes, size),
                   order |-> InOrder(ScoreKeys(prob, cand), tie)])

NmsScores(logits, boxes, size, prob, tie) ==
    Once(LAMBDA cand : NmsCandidates(logits, boxes, size, prob, cand, tie),
         Candidates(prob, tie))

NmsImage(logits, boxes, size, tie) ==
    Once(LAMBDA prob : NmsScores(logits, boxes, size, prob, tie), FlatProb(logits))

NMSPostProcessForward ==
    /\ pc = "nms"
    /\ \E tie \in TieOrders :
          IF Len(outputs.pred_logits) # Len(target_sizes)
             \/ \E b \in DOMAIN target_sizes : Len(target_sizes[b]) # 2
          THEN error' = "AssertionError" /\ UNCHANGED <<results, calls>>
          ELSE /\ results' = [b \in DOMAIN target_sizes |->
                                 NmsImage(outputs.pred_logits[b], outputs.pred_boxes[b],
                                          target_sizes[b], tie)]
               /\ calls' = <<[fn |-> "batched_nms",
                              entered |-> [b \in DOMAIN target_sizes |->
                                  Candidates(FlatProb(outputs.pred_logits[b]), tie)]]>>
               /\ UNCHANGED error
    /\ pc' = "done"
    /\ UNCHANGED <<self, outputs, targets, world, indices, second_indices, num_boxes,
                   losses, li, ai, bin_targets, matches, reduces, heap, target_sizes>>

(***************************************************************************)
(* The NMS post-processor on its own: batches of one or two images of      *)
(* 5 x 3, 6 x 20 and 8 x 20 scores, and one image of 5 x 2001 scores, more *)
(* than the cap.  Of the boxes the second has IoU 8/10 with the first and  *)
(* the fourth exactly 7/10 with the third.  The scores fall with the class *)
(* index, four classes to a logit, so the queries of a class compete.      *)
(***************************************************************************)
NmsShapes == {<<5, 3>>, <<6, 20>>, <<8, 20>>, <<5, 2001>>}
NmsBoxes == <<MkBox(5, 5, 4, 4), MkBox(5, 5, 4, 5), MkBox(5, 5, 10, 10),
              MkBox(5, 5, 7, 10), MkBox(3, 7, 2, 2), MkBox(1, 1, 4, 4),
              MkBox(8, 2, 2, 2), MkBox(2, 8, 2, 2)>>

NmsOutputs(nb, nq, nc, seed) ==
    [pred_logits |-> [b \in 1..nb |-> [q \in 1..nq |-> [c \in 1..nc |->
                        3 - Min2(6, ((c - 1) \div 4) + seed * (q % 2))]]],
     pred_boxes |-> [b \in 1..nb |-> [q \in 1..nq |->
                        NmsBoxes[((q + b + seed + 5) % Len(NmsBoxes)) + 1]]],
     obj |-> [b \in 1..nb |-> [q \in 1..nq |-> Rat((3 * q + b + 2 * seed) % 11, 10)]]]

NmsInit ==
    /\ \E shape \in NmsShapes : \E seed \in 0..MaxSeed : \E nb \in 1..2 :
          /\ PreTopKRule(shape[1] * shape[2]) => (nb = 1 /\ seed = 0)
          /\ outputs = NmsOutputs(nb, shape[1], shape[2], seed)
          /\ target_sizes \in [1..nb -> PostSizes]
    /\ self = <<>> /\ targets = <<>>
    /\ world = [dist |-> FALSE, world_size |-> 1, remote |-> 0]
    /\ pc = "nms"
    /\ indices = None /\ second_indices = None /\ num_boxes = None
    /\ losses = None /\ li = 0 /\ ai = 0 /\ bin_targets = None /\ error = None
    /\ calls = <<>> /\ matches = <<>> /\ reduces = 0
    /\ heap = <<>> /\ results = <<>>

NmsNext == NMSPostProcessForward

NmsSpec == NmsInit /\ [][NmsNext]_vars

(***************************************************************************)
(* NMSPostProcess.forward: the claims.                                     *)
(***************************************************************************)
\* the results of image b hold no two detections of one class with IoU
\* above 7/10
NoOverlapInClass(res) ==
    \A r, t \in DOMAIN res.boxes :
        (r < t /\ res.labels[r] = res.labels[t])
            => ~RLess(Rat(7, 10), box_iou(res.boxes[r], res.boxes[t]))

\* the flat indices that entered the suppression step of image b are
\* 10,000 different ones and none left out has a higher score than one
\* that entered
HighestEntered(b, entered) ==
    /\ Len(entered) = 10000
    /\ Cardinality({entered[r] : r \in DOMAIN entered}) = 10000
    /\ \A r \in DOMAIN entered : entered[r] \in 0..(GridSize - 1)
    /\ \A f \in (0..(GridSize - 1)) \ {entered[r] : r \in DOMAIN entered} :
          \A r \in DOMAIN entered : ScoreAt(b, f) <= ScoreAt(b, entered[r])

\* C8: for every image NMSPostProcess.forward returns at most 100
\* detections, no two of them of the same class with IoU > 0.7; when
\* Q * C > 10,000 only the 10,000 highest-scoring (query, class) candidates
\* enter the suppression step.
C8_NmsDetections ==
    (pc = "done" /\ calls # <<>> /\ calls[1].fn = "batched_nms") =>
        /\ error = None
        /\ \A b \in DOMAIN target_sizes :
              /\ Len(results[b].scores) <= 100
              /\ Len(results[b].labels) = Len(results[b].scores)
              /\ Len(results[b].boxes) = Len(results[b].scores)
              /\ NoOverlapInClass(results[b])
              /\ GridSize > 10000 => HighestEntered(b, calls[1].entered[b])
              /\ GridSize <= 10000 => Len(calls[1].entered[b]) = GridSize

\* a returned image of more than 10,000 scores with 100 detections, one
\* candidate of which was suppressed: it scores above the last detection
\* and is none of them
C8_Witness ==
    /\ pc = "done" /\ error = None /\ calls # <<>> /\ calls[1].fn = "batched_nms"
    /\ GridSize > 10000
    /\ Len(results[1].scores) = 100
    /\ \E q \in 1..Len(outputs.pred_logits[1]) : \E c \in 1..4 :
          /\ RLess(results[1].scores[100], sigmoid(outputs.pred_logits[1][q][c]))
          /\ \A r \in 1..100 :
                ~(/\ results[1].labels[r] = c - 1
                  /\ results[1].boxes[r]
                        = Scaled(outputs.pred_boxes[1][q], target_sizes[1]))

====
